---- MODULE Spec2Model ----
(***************************************************************************)
(* Model of the decision / reconciliation core of trade_compass_be:        *)
(*   - SignalGenerator (edge-triggered signal poller),                      *)
(*   - the listener wiring of build() in app/server.ts,                     *)
(*   - TradeClosureService.processSignal over TradeRepository.              *)
(* JavaScript runs one callback at a time: a synchronous stretch of code is *)
(* one action, and every `await` on I/O ends an action.                     *)
(***************************************************************************)
EXTENDS Integers, Sequences, FiniteSets, TLC

\* ---------------------------------------------------------------- bounds
MaxListLen == 2     \* longest list one getTradingSignals() call returns
MaxStarts  == 2     \* start() calls made in one run
MaxInFlight == 2    \* cap on checkSignals bodies awaiting the feed at once
NumTrades  == 2     \* rows of the Trade table
MaxProcs   == 2     \* processSignal invocations in flight at once
MaxGrades  == 2     \* longest list one getTraderGrades() call returns
MaxGrade   == 100   \* largest value of one grade
MaxUpdates == 2     \* updateAndStoreSuggestions calls that can overlap
MaxRuns    == 3     \* generator runs in one behaviour
MaxMarkets == 3     \* markets one exchange.loadMarkets() call returns
MaxAccepted == 2    \* accepted closing orders counted per position
MaxPeriodicStarts == 2  \* startPeriodicUpdates calls made in one run

\* ------------------------------------------------------------ value sets
Signals      == {-1, 0, 1}                 \* TokenTradingSignal.signal
FeedSymbols  == {"BTC", "ETH"}             \* TokenTradingSignal.symbol
TradeSymbols == {"BTC/USDC", "ETH/USDC"}   \* Trade.symbol (ccxt market symbol)
Sides        == {"buy", "sell"}
AllListeners == {"buy", "sell", "error"}
StartIds     == 1..MaxStarts
TradeIds     == 1..NumTrades
ProcIds      == 1..MaxProcs
TimerCaller  == 0                          \* checkSignals called by the setInterval callback

VARIABLES
    \* SignalGenerator fields
    lastSignals,    \* Map<symbol, last_signal>: a function on the recorded keys
    intervalId,     \* 0 = null, otherwise the handle stored by start()
    isChecking,     \* the in-flight flag
    stopped,        \* stop() has returned and start() was not called since
    \* runtime around the generator
    activeTimers,   \* handles created by setInterval and not cleared
    inFlight,       \* callers of the checkSignals bodies awaiting getTradingSignals()
    startPc,        \* position of each start() call
    listeners,      \* event names that have a listener (registered by build())
    uncaught,       \* an error that left the core: "none" | "startRejected" |
                    \* "unhandledRejection" | "processSignalRejected"
    \* observation of the most recent checkSignals invocation
    tickOutcome,    \* "none" | "running" | "skipped" | "complete" | "empty" | "failed"
    events,         \* evaluations of the last tick body, in list order
    errorEmits,     \* emit('error') calls of the last tick body
    \* position store and reconciler
    trades,         \* Trade table: tradeId -> row
    procs,          \* processSignal invocations: slot -> frame
    lastOp,         \* the reconciler step taken last
    failed,         \* trade ids whose closing order threw at least once
    accepted,       \* closing orders the exchange accepted, by trade id (up to MaxAccepted)
    \* SuggestionGenerator
    spotMarketInfoMap,      \* keys of the spot catalog map given to the constructor
    futuresMarketInfoMap,   \* keys of the futures catalog map given to the constructor
    sgPc,           \* generateSuggestions: "idle" | "awaitGrades" | "done" | "rejected"
    traderGrades,   \* the list the last getTraderGrades() call returned
    suggestions,    \* the list the last generateSuggestions() call returned
    \* SuggestionService and the storage behind it
    isUpdating,     \* the in-progress flag of updateAndStoreSuggestions
    updates,        \* updateAndStoreSuggestions invocations: slot -> frame
    storedSuggestions,  \* what getSuggestions() would return
    generatorCalls, \* calls of suggestionGenerator.generateSuggestions so far
    saveCalls,      \* calls of storageService.saveSuggestions so far
    errorLogs,      \* calls of logger.error so far
    updateIntervalId,   \* 0 = null, otherwise the handle stored by startPeriodicUpdates
    updateTimers,   \* handles of the update intervals that are live
    periodicPc,     \* startPeriodicUpdates invocations: call id -> frame
    lastLog,        \* the message startPeriodicUpdates / stopPeriodicUpdates logged last
    \* BinanceService
    markets,        \* this.markets: the markets the last successful load returned
    usdcSpotMarketInfo,     \* own keys of the spot record
    usdcFuturesMarketInfo,  \* own keys of the futures record
    loadPc,         \* loadMarkets: "idle" | "awaitLoad" | "done" | "rejected"
    placeCall       \* the placeMarketOrder invocation

genVars    == <<lastSignals, intervalId, isChecking, stopped, activeTimers, inFlight,
                startPc, listeners, tickOutcome, events, errorEmits>>
reconVars  == <<trades, procs, lastOp, failed, accepted>>
vars       == <<lastSignals, intervalId, isChecking, stopped, activeTimers, inFlight,
                startPc, listeners, uncaught, tickOutcome, events, errorEmits,
                trades, procs, lastOp, failed, accepted,
                spotMarketInfoMap, futuresMarketInfoMap, sgPc, traderGrades, suggestions,
                isUpdating, updates, storedSuggestions, generatorCalls, saveCalls,
                errorLogs, updateIntervalId, updateTimers, periodicPc, lastLog,
                markets, usdcSpotMarketInfo, usdcFuturesMarketInfo, loadPc, placeCall>>
sugVars    == <<spotMarketInfoMap, futuresMarketInfoMap, sgPc, traderGrades, suggestions>>
schedVars  == <<updateIntervalId, updateTimers, periodicPc, lastLog>>
svcVars    == <<isUpdating, updates, storedSuggestions, generatorCalls, saveCalls,
                errorLogs, schedVars>>
catVars    == <<markets, usdcSpotMarketInfo, usdcFuturesMarketInfo, loadPc, placeCall>>
extVars    == <<svcVars, catVars>>

\* ------------------------------------------------------- pure helpers
\* Map.has / Map.get / Map.set on lastSignals
MapHas(m, k) == k \in DOMAIN m
MapGet(m, k) == IF k \in DOMAIN m THEN m[k] ELSE 0
MapSet(m, k, v) == [x \in (DOMAIN m) \cup {k} |-> IF x = k THEN v ELSE m[x]]

\* Mutant of BuyEdge: a level trigger, fires on 1 -> 1 too.
BuyEdgeLevel(known, last, cur) == cur = 1

\* checkSignals: (last === -1 || last === 0 || last === undefined) && current === 1
BuyEdge(known, last, cur) ==
    (~known \/ last = -1 \/ last = 0) /\ cur = 1

\* checkSignals: (last === 1 || last === 0 || last === undefined) && current === -1
SellEdge(known, last, cur) ==
    (~known \/ last = 1 \/ last = 0) /\ cur = -1

\* the if / else-if of the loop body: which event one list entry emits
EventFor(known, last, cur) ==
    IF BuyEdge(known, last, cur) THEN "buy"
    ELSE IF SellEdge(known, last, cur) THEN "sell"
    ELSE "none"

\* Mutant of MapAfterEntry: the value is recorded only when an event fired.
MapAfterEntryOnEvent(map, symbol, value, ev) ==
    IF ev = "none" THEN map ELSE MapSet(map, symbol, value)

\* checkSignals lines 102-103: the value is recorded after the if / else-if
MapAfterEntry(map, symbol, value, ev) == MapSet(map, symbol, value)

\* the for loop of checkSignals: evaluates the entries in order against the
\* map as updated so far, and records the value of every entry
RECURSIVE EvalSignals(_, _, _)
EvalSignals(list, map, log) ==
    IF list = <<>> THEN [map |-> map, log |-> log]
    ELSE LET signal == Head(list)
             known  == MapHas(map, signal.symbol)
             last   == MapGet(map, signal.symbol)
         IN EvalSignals(Tail(list),
                        MapAfterEntry(map, signal.symbol, signal.signal,
                                      EventFor(known, last, signal.signal)),
                        Append(log, [symbol |-> signal.symbol,
                                     cur    |-> signal.signal,
                                     ev     |-> EventFor(known, last, signal.signal)]))

\* lists the feed can return: 1..MaxListLen entries
SignalItems == [symbol : FeedSymbols, signal : Signals]
SignalLists == UNION {[1..n -> SignalItems] : n \in 1..MaxListLen}

\* EventEmitter.emit: the evaluations whose event has a listener, in order
ListenerCalls(log, ls) == SelectSeq(log, LAMBDA e : e.ev \in ls)

\* EventEmitter.emit('error', e) throws e when no 'error' listener exists
EmitErrorThrows(ls) == "error" \notin ls

\* ------------------------------------------------- processSignal frames
\* values of type `number | null` as JavaScript holds them; a field ccxt
\* leaves out reads as undefined
Null      == [tag |-> "null", v |-> 0]
Undefined == [tag |-> "undefined", v |-> 0]
NaN       == [tag |-> "NaN", v |-> 0]
Num(x)    == [tag |-> "num", v |-> x]

\* the `-` operator: null converts to 0, undefined and NaN give NaN
JsMinus(a, b) ==
    IF a.tag \in {"undefined", "NaN"} \/ b.tag \in {"undefined", "NaN"} THEN NaN
    ELSE Num(a.v - b.v)

\* no request handed to the exchange / no closure data computed yet
NoRequest == [method |-> "none"]
NoClosure == [closeOrderId |-> "null"]
NoOrder   == [id |-> "none"]

FreeProc ==
    [pc |-> "free", signalSide |-> "none", symbol |-> "none", oppositeSide |-> "none",
     open |-> <<>>, idx |-> 0, req |-> NoRequest, order |-> NoOrder, upd |-> NoClosure]

\* processSignal line 26
OppositeSide(side) == IF side = "buy" THEN "sell" ELSE "buy"

\* processSignal up to its first await: the query has been issued
ProcessSignalEnter(side, symbol) ==
    [FreeProc EXCEPT !.pc = "find", !.signalSide = side, !.symbol = symbol,
                     !.oppositeSide = OppositeSide(side)]

FreeSlots(ps) == {p \in ProcIds : ps[p].pc = "free"}
MinOf(S) == CHOOSE x \in S : \A y \in S : x <= y

\* the 'buy' / 'sell' listeners of build(): one processSignal call per event
RECURSIVE Spawn(_, _)
Spawn(ps, calls) ==
    IF calls = <<>> THEN ps
    ELSE Spawn([ps EXCEPT ![MinOf(FreeSlots(ps))] =
                    ProcessSignalEnter(Head(calls).ev, Head(calls).symbol)],
               Tail(calls))

\* ------------------------------------------------------ signal poller
\* the process is alive: no error has left the core
Running == uncaught = "none"

\* a start() call whose `await this.checkSignals()` resolved at once (the
\* check was skipped) resumes before any timer or I/O callback runs
MicrotaskPending == \E s \in StartIds : startPc[s] = "awaitSkip"

\* Mutant of GuardSkips: no reentrancy guard.
GuardNever(flag) == FALSE

\* checkSignals lines 66-69: `if (this.isChecking) return`
GuardSkips(flag) == flag

\* Mutant of FlagAfter: the flag is cleared at the end of the try block only.
FlagAfterNoFinally(outcome) == outcome = "failed"

\* value of isChecking when a tick body ends: line 78 and the finally block
FlagAfter(outcome) == FALSE

\* Mutant of MapAfterError: the catch block resets the recorded values.
MapClearedOnError(map) == <<>>

\* checkSignals lines 108-113: the catch block leaves lastSignals alone
MapAfterError(map) == map

\* checkSignals from its call to `await this.tmClient.getTradingSignals()`
CheckSignalsEnter(caller) ==
    IF GuardSkips(isChecking)
    THEN /\ tickOutcome' = "skipped"
         /\ UNCHANGED <<isChecking, inFlight, events, errorEmits>>
    ELSE /\ isChecking' = TRUE
         /\ inFlight' = Append(inFlight, caller)
         /\ tickOutcome' = "running"
         /\ events' = <<>>
         /\ errorEmits' = 0

\* build(): `await signalGenerator.start()` is followed by the three .on() calls;
\* the first start() call of a run is build()'s
ListenersAfterStart(s) == IF s = 1 THEN AllListeners ELSE listeners

\* Array removal: the invocation that ended leaves the set of pending ones
RemoveAt(seq, i) == [j \in 1..(Len(seq) - 1) |-> IF j < i THEN seq[j] ELSE seq[j + 1]]

\* start() lines 50-52 for start call s, after its await; caller 0 is the timer
StartSchedules(caller) ==
    IF caller = TimerCaller
    THEN UNCHANGED <<intervalId, activeTimers, startPc, listeners>>
    ELSE /\ intervalId' = caller
         /\ activeTimers' = activeTimers \cup {caller}
         /\ startPc' = [startPc EXCEPT ![caller] = "done"]
         /\ listeners' = ListenersAfterStart(caller)

\* start() lines 38-47
Start(s) ==
    /\ Running
    /\ startPc[s] = "unused"
    /\ \A r \in StartIds : r < s => startPc[r] # "unused"
    /\ Len(inFlight) < MaxInFlight
    /\ IF intervalId # 0
       THEN /\ startPc' = [startPc EXCEPT ![s] = "done"]
            /\ UNCHANGED <<isChecking, inFlight, tickOutcome, events, errorEmits>>
       ELSE /\ CheckSignalsEnter(s)
            /\ startPc' = [startPc EXCEPT ![s] =
                              IF GuardSkips(isChecking) THEN "awaitSkip" ELSE "awaitTick"]
    /\ stopped' = FALSE
    /\ UNCHANGED <<lastSignals, intervalId, activeTimers, listeners, uncaught, reconVars>>
    /\ UNCHANGED <<sugVars, extVars>>

\* start() lines 50-52 after a skipped immediate check
StartResume(s) ==
    /\ Running
    /\ startPc[s] = "awaitSkip"
    /\ StartSchedules(s)
    /\ UNCHANGED <<lastSignals, isChecking, stopped, inFlight, uncaught, tickOutcome,
                   events, errorEmits, reconVars>>
    /\ UNCHANGED <<sugVars, extVars>>

\* Mutant of TimersAfterStop: the handle is forgotten, the timer is not cleared.
TimersAfterStopLeaked(timers, id) == timers

\* stop() line 57: clearInterval(this.intervalId)
TimersAfterStop(timers, id) == timers \ {id}

\* stop() lines 55-63
Stop ==
    /\ Running
    /\ IF intervalId # 0
       THEN /\ activeTimers' = TimersAfterStop(activeTimers, intervalId)
            /\ intervalId' = 0
       ELSE UNCHANGED <<activeTimers, intervalId>>
    /\ stopped' = TRUE
    /\ UNCHANGED <<lastSignals, isChecking, inFlight, startPc, listeners, uncaught,
                   tickOutcome, events, errorEmits, reconVars>>
    /\ UNCHANGED <<sugVars, extVars>>

\* the setInterval callback of start() lines 50-52
TimerFire(t) ==
    /\ Running
    /\ ~MicrotaskPending
    /\ t \in activeTimers
    /\ Len(inFlight) < MaxInFlight
    /\ CheckSignalsEnter(TimerCaller)
    /\ UNCHANGED <<lastSignals, intervalId, stopped, activeTimers, startPc, listeners,
                   uncaught, reconVars>>
    /\ UNCHANGED <<sugVars, extVars>>

\* checkSignals lines 74-106 and 111-113: the feed returned a non-empty list
FeedReturns(i, list) ==
    /\ Running
    /\ ~MicrotaskPending
    /\ i \in 1..Len(inFlight)
    /\ LET r     == EvalSignals(list, lastSignals, <<>>)
           calls == ListenerCalls(r.log, listeners \cap Sides)
       IN /\ Len(calls) <= Cardinality(FreeSlots(procs))
          /\ lastSignals' = r.map
          /\ events' = r.log
          /\ procs' = Spawn(procs, calls)
          /\ lastOp' = IF calls = <<>> THEN lastOp ELSE "call"
    /\ isChecking' = FlagAfter("complete")
    /\ inFlight' = RemoveAt(inFlight, i)
    /\ tickOutcome' = "complete"
    /\ StartSchedules(inFlight[i])
    /\ UNCHANGED <<stopped, uncaught, errorEmits, trades, failed, accepted>>
    /\ UNCHANGED <<sugVars, extVars>>

\* checkSignals lines 76-80: the feed returned null or an empty list
FeedEmpty(i) ==
    /\ Running
    /\ ~MicrotaskPending
    /\ i \in 1..Len(inFlight)
    /\ isChecking' = FlagAfter("empty")
    /\ inFlight' = RemoveAt(inFlight, i)
    /\ tickOutcome' = "empty"
    /\ StartSchedules(inFlight[i])
    /\ UNCHANGED <<lastSignals, stopped, uncaught, events, errorEmits, reconVars>>
    /\ UNCHANGED <<sugVars, extVars>>

\* checkSignals lines 108-113: getTradingSignals() rejected
FeedFails(i) ==
    /\ Running
    /\ ~MicrotaskPending
    /\ i \in 1..Len(inFlight)
    /\ errorEmits' = errorEmits + 1
    /\ isChecking' = FlagAfter("failed")
    /\ inFlight' = RemoveAt(inFlight, i)
    /\ tickOutcome' = "failed"
    /\ IF EmitErrorThrows(listeners)
       THEN \* emit throws inside the catch block: checkSignals rejects
            /\ IF inFlight[i] = TimerCaller
               THEN /\ uncaught' = "unhandledRejection"
                    /\ UNCHANGED startPc
               ELSE /\ uncaught' = "startRejected"
                    /\ startPc' = [startPc EXCEPT ![inFlight[i]] = "rejected"]
            /\ UNCHANGED <<intervalId, activeTimers, listeners>>
       ELSE /\ StartSchedules(inFlight[i])
            /\ UNCHANGED uncaught
    /\ lastSignals' = MapAfterError(lastSignals)
    /\ UNCHANGED <<stopped, events, reconVars>>
    /\ UNCHANGED <<sugVars, extVars>>

\* ------------------------------------------------- position reconciler
UserIds == {"u1", "u2"}

\* User table: u1 has both credentials, u2 has an empty api_secret
Users ==
    [u \in UserIds |-> IF u = "u1" THEN [apiKey |-> "k1", apiSecret |-> "s1"]
                                   ELSE [apiKey |-> "k2", apiSecret |-> ""]]

OrderErrors == {"InsufficientFunds", "InvalidOrder", "AuthenticationError",
                "NetworkError", "Other"}

RECURSIVE SetToSeq(_)
SetToSeq(S) == IF S = {} THEN <<>> ELSE <<MinOf(S)>> \o SetToSeq(S \ {MinOf(S)})

\* Mutant of FindOpenMatch: the side filter is missing.
FindOpenMatchAnySide(row, symbol, side) ==
    row.symbol = symbol /\ row.tcState = "OPEN" /\ row.filled > 0

\* Mutant of SymbolMatches: the symbol filter is missing.
SymbolMatchesAny(rowSymbol, symbol) == TRUE

\* findOpenTradesBySymbolAndSide: `symbol: symbol` of the `where` clause
SymbolMatches(rowSymbol, symbol) == rowSymbol = symbol

\* findOpenTradesBySymbolAndSide: the `where` clause of findMany
FindOpenMatch(row, symbol, side) ==
    /\ SymbolMatches(row.symbol, symbol)
    /\ row.side = side
    /\ row.tcState = "OPEN"
    /\ row.filled > 0

\* findOpenTradesBySymbolAndSide: the rows returned, in primary-key order
FindOpenTrades(symbol, side) ==
    SetToSeq({t \in TradeIds : FindOpenMatch(trades[t], symbol, side)})

\* prisma update `data`: a field whose value is undefined is not written
PrismaSet(old, new) == IF new = Undefined THEN old ELSE new

\* updateTradeClosure: the `data` of prisma.trade.update
UpdateTradeClosure(row, data) ==
    [row EXCEPT !.tcState = "COMPLETED",
                !.closeOrderId = data.closeOrderId,
                !.closeTimestamp = data.closeTimestamp,
                !.closePrice = PrismaSet(row.closePrice, data.closePrice),
                !.closeCost = PrismaSet(row.closeCost, data.closeCost),
                !.profit = PrismaSet(row.profit, data.profit),
                !.durationMs = PrismaSet(row.durationMs, data.durationMs)]

\* processSignal line 54
ClosingSide(side) == IF side = "buy" THEN "sell" ELSE "buy"

\* processSignal lines 57-60: the params object built for the closing order
ClosingParams(marketType) == IF marketType = "futures" THEN {"reduceOnly"} ELSE {}

\* BinanceService.placeMarketOrder lines 213-271: the request sent to the
\* exchange. The method declares seven parameters: the eighth argument of the
\* call in processSignal (params) is not read. amount is a base-asset quantity
\* for createOrder and a quote-currency cost for createMarketBuyOrderWithCost.
PlaceMarketOrderRequest(marketSymbol, side, amount, marketType, params) ==
    IF marketType = "futures"
    THEN [method |-> "createOrder", symbol |-> marketSymbol, side |-> side,
          amount |-> amount, unit |-> "base", marketType |-> marketType, params |-> {}]
    ELSE IF side = "buy"
    THEN [method |-> "createMarketBuyOrderWithCost", symbol |-> marketSymbol, side |-> side,
          amount |-> amount, unit |-> "quote", marketType |-> marketType, params |-> {}]
    ELSE [method |-> "createOrder", symbol |-> marketSymbol, side |-> side,
          amount |-> amount, unit |-> "base", marketType |-> marketType, params |-> {}]

\* processSignal lines 70-79: the call made for the position in `row`
ClosingRequest(row) ==
    PlaceMarketOrderRequest(row.symbol, ClosingSide(row.side), row.filled, row.marketType,
                            ClosingParams(row.marketType))

\* processSignal lines 86-100
Profit(side, originalCost, closeCost) ==
    IF originalCost # Null /\ closeCost # Null
    THEN IF side = "buy" THEN JsMinus(closeCost, originalCost)
                         ELSE JsMinus(originalCost, closeCost)
    ELSE Null

\* values `new Date()` can read from the wall clock, in milliseconds
WallClock == {700, 900}

\* Mutant of CloseTimestamp: the wall clock is read whatever the order reports.
CloseTimestampNow(order, now) == Num(now)

\* processSignal line 83: the order's timestamp when it is truthy, else now
CloseTimestamp(order, now) ==
    IF order.timestamp.tag = "num" /\ order.timestamp.v # 0
    THEN order.timestamp ELSE Num(now)

\* processSignal line 84: closeTimestamp.getTime() - timestamp.getTime()
DurationMs(closeTimestamp, row) == JsMinus(closeTimestamp, row.timestamp)

\* processSignal lines 103-110: the closure data handed to updateTradeClosure
ClosureData(row, order, now) ==
    [closeOrderId |-> order.id, closeCost |-> order.cost,
     profit |-> Profit(row.side, row.cost, order.cost),
     closeTimestamp |-> CloseTimestamp(order, now),
     closePrice |-> order.average,
     durationMs |-> DurationMs(CloseTimestamp(order, now), row)]

\* orders the exchange can return: the cost is a number, or missing
OrderCosts    == {Num(1010), Num(2980), Null, Undefined}
ClosingOrders == [id : {"close"}, cost : OrderCosts, average : {Num(202)},
                  timestamp : {Num(500)}]
FilledOrders  == [id : {"close"}, cost : {Num(1010)}, average : {Num(202)},
                  timestamp : {Num(500)}]

\* Mutant of SkipsPosition: the credentials are not checked.
SkipsPositionNoCredentials(found, row) == ~found

\* processSignal lines 44-51 and 62-65: the three `continue` conditions
SkipsPosition(found, row) ==
    \/ ~found
    \/ Users[row.userId].apiKey = "" \/ Users[row.userId].apiSecret = ""
    \/ row.filled <= 0

\* processSignal resolves ("returned") or rejects ("threw"): its frame is gone
Finish(p, outcome) ==
    /\ procs' = [procs EXCEPT ![p] = FreeProc]
    /\ uncaught' = IF outcome = "threw" THEN "processSignalRejected" ELSE uncaught

\* Mutant of NextIteration: the loop stays at the same position.
NextIterationSamePosition(f) ==
    [f EXCEPT !.pc = "user", !.req = NoRequest, !.order = NoOrder, !.upd = NoClosure]

\* the frame of the next loop iteration, at `await findById(...)`
NextIteration(f) ==
    [f EXCEPT !.idx = f.idx + 1, !.pc = "user", !.req = NoRequest,
              !.order = NoOrder, !.upd = NoClosure]

\* Mutant of LoopNext: a do-while loop, the body runs before the length test.
LoopNextDoWhile(p, f) ==
    IF f.idx <= Len(f.open)
    THEN /\ procs' = [procs EXCEPT ![p] = NextIteration(f)]
         /\ UNCHANGED uncaught
    ELSE Finish(p, "returned")

\* the for loop of processSignal goes to its next element: the next
\* iteration runs up to `await this.userRepository.findById(...)`
LoopNext(p, f) ==
    IF f.idx < Len(f.open)
    THEN /\ procs' = [procs EXCEPT ![p] = NextIteration(f)]
         /\ UNCHANGED uncaught
    ELSE Finish(p, "returned")

\* Mutant of OnOrderError: the closure is persisted after a failed order too.
OnOrderErrorProceeds(p, f) ==
    /\ procs' = [procs EXCEPT ![p] = [f EXCEPT !.pc = "update"]]
    /\ UNCHANGED uncaught

\* Mutant of OnOrderError: no inner try/catch, the outer catch ends the pass.
OnOrderErrorAbort(p, f) == Finish(p, "returned")

\* processSignal lines 113-133: the inner catch logs, the loop continues
OnOrderError(p, f) == LoopNext(p, f)

\* Mutant of OnRepoError: no outer try/catch, the query error propagates.
OnRepoErrorRethrows(p) == Finish(p, "threw")

\* processSignal lines 136-138: the outer catch logs and the call resolves
OnRepoError(p) == Finish(p, "returned")

\* Mutant of RowAfterOrderError: a failed attempt marks the row as closed.
RowAfterOrderErrorGivesUp(row) == [row EXCEPT !.tcState = "COMPLETED"]

\* processSignal lines 113-133: the inner catch writes nothing to the store
RowAfterOrderError(row) == row

\* a call of processSignal(side, symbol) from outside the listeners
CallProcessSignal(side, symbol) ==
    /\ Running
    /\ FreeSlots(procs) # {}
    /\ procs' = [procs EXCEPT ![MinOf(FreeSlots(procs))] = ProcessSignalEnter(side, symbol)]
    /\ lastOp' = "call"
    /\ UNCHANGED <<genVars, uncaught, trades, failed, accepted>>
    /\ UNCHANGED <<sugVars, extVars>>

\* a call of processSignal made when no other invocation is running
CallProcessSignalAlone(side, symbol) ==
    /\ \A p \in ProcIds : procs[p].pc = "free"
    /\ CallProcessSignal(side, symbol)

\* processSignal lines 30-40: the query returned
FindOpenReturns(p) ==
    /\ Running
    /\ ~MicrotaskPending
    /\ procs[p].pc = "find"
    /\ LET f == [procs[p] EXCEPT !.open = FindOpenTrades(procs[p].symbol, procs[p].oppositeSide)]
       IN LoopNext(p, f)
    /\ lastOp' = "findReturned"
    /\ UNCHANGED <<genVars, trades, failed, accepted>>
    /\ UNCHANGED <<sugVars, extVars>>

\* processSignal lines 136-138: the query threw
FindOpenFails(p) ==
    /\ Running
    /\ ~MicrotaskPending
    /\ procs[p].pc = "find"
    /\ OnRepoError(p)
    /\ lastOp' = "findThrew"
    /\ UNCHANGED <<genVars, trades, failed, accepted>>
    /\ UNCHANGED <<sugVars, extVars>>

\* processSignal lines 43-79: findById returned (null when the lookup failed:
\* UserRepository.findById catches and returns null); a position that passes
\* the checks has its closing order sent
FindByIdReturns(p, found) ==
    /\ Running
    /\ ~MicrotaskPending
    /\ procs[p].pc = "user"
    /\ LET f   == procs[p]
           row == trades[f.open[f.idx]]
       IN IF SkipsPosition(found, row)
          THEN LoopNext(p, f)
          ELSE /\ procs' = [procs EXCEPT ![p] =
                              [f EXCEPT !.pc = "order", !.req = ClosingRequest(row)]]
               /\ UNCHANGED uncaught
    /\ lastOp' = IF found THEN "userReturned" ELSE "userNull"
    /\ UNCHANGED <<genVars, trades, failed, accepted>>
    /\ UNCHANGED <<sugVars, extVars>>

\* Mutant of OnLookupError: findById lets the error through, and line 43 is
\* outside the inner try, so the outer catch ends the pass.
OnLookupErrorAbort(p, f) == Finish(p, "returned")

\* UserRepository.findById lines 282-294 and processSignal lines 43-47: the
\* repository catches the query error and returns null, the position is
\* skipped as one whose owner was not found
OnLookupError(p, f) == LoopNext(p, f)

\* processSignal line 43: the user query behind findById threw
FindByIdFails(p) ==
    /\ Running
    /\ ~MicrotaskPending
    /\ procs[p].pc = "user"
    /\ OnLookupError(p, procs[p])
    /\ lastOp' = "userThrew"
    /\ UNCHANGED <<genVars, trades, failed, accepted>>
    /\ UNCHANGED <<sugVars, extVars>>

\* processSignal lines 80-110: the exchange accepted the closing order
PlaceOrderReturns(p, order) ==
    /\ Running
    /\ ~MicrotaskPending
    /\ procs[p].pc = "order"
    /\ LET f   == procs[p]
           row == trades[f.open[f.idx]]
       IN /\ \E now \in WallClock :
               procs' = [procs EXCEPT ![p] =
                            [f EXCEPT !.pc = "update", !.order = order,
                                      !.upd = ClosureData(row, order, now)]]
          /\ accepted' = [accepted EXCEPT ![f.open[f.idx]] =
                              IF @ < MaxAccepted THEN @ + 1 ELSE @]
    /\ lastOp' = "orderAccepted"
    /\ UNCHANGED <<genVars, uncaught, trades, failed>>
    /\ UNCHANGED <<sugVars, extVars>>

\* processSignal lines 113-133: placeMarketOrder threw
PlaceOrderThrows(p, err) ==
    /\ Running
    /\ ~MicrotaskPending
    /\ procs[p].pc = "order"
    /\ LET t == procs[p].open[procs[p].idx]
       IN /\ trades' = [trades EXCEPT ![t] = RowAfterOrderError(trades[t])]
          /\ failed' = failed \cup {t}
    /\ OnOrderError(p, procs[p])
    /\ lastOp' = "orderThrew"
    /\ UNCHANGED <<genVars, accepted>>
    /\ UNCHANGED <<sugVars, extVars>>

\* processSignal line 111: updateTradeClosure returned
UpdateReturns(p) ==
    /\ Running
    /\ ~MicrotaskPending
    /\ procs[p].pc = "update"
    /\ LET f == procs[p]
           t == f.open[f.idx]
       IN /\ trades' = [trades EXCEPT ![t] = UpdateTradeClosure(trades[t], f.upd)]
          /\ LoopNext(p, f)
    /\ lastOp' = "updateReturned"
    /\ UNCHANGED <<genVars, failed, accepted>>
    /\ UNCHANGED <<sugVars, extVars>>

\* processSignal lines 113-133: updateTradeClosure threw
UpdateThrows(p) ==
    /\ Running
    /\ ~MicrotaskPending
    /\ procs[p].pc = "update"
    /\ LoopNext(p, procs[p])
    /\ lastOp' = "updateThrew"
    /\ UNCHANGED <<genVars, trades, failed, accepted>>
    /\ UNCHANGED <<sugVars, extVars>>

\* ------------------------------------------------ suggestion generator
\* exact fractions for the arithmetic of determineActionAndConfidence
Frac(n, d)    == [num |-> n, den |-> d]
FracLeq(a, b) == a.num * b.den <= b.num * a.den
FracEq(a, b)  == a.num * b.den = b.num * a.den
FracSub(a, b) == Frac(a.num * b.den - b.num * a.den, a.den * b.den)
FracDiv(a, b) == Frac(a.num * b.den, a.den * b.num)
FracMul(a, b) == Frac(a.num * b.num, a.den * b.den)
FracAbs(a)    == IF a.num < 0 THEN Frac(0 - a.num, a.den) ELSE a
FracMin(a, b) == IF FracLeq(a, b) THEN a ELSE b
FracMax(a, b) == IF FracLeq(a, b) THEN b ELSE a

\* Math.round: the nearest integer, halves go up
MathRound(a) == (2 * a.num + a.den) \div (2 * a.den)

\* Mutant of CapAndRound: the cap is applied, the rounding is not.
CapOnly(confidence) == FracMin(FracMax(confidence, Frac(0, 1)), Frac(99, 100))

\* determineActionAndConfidence lines 121-123
CapAndRound(confidence) ==
    LET capped == FracMin(FracMax(confidence, Frac(0, 1)), Frac(99, 100))
    IN Frac(MathRound(FracMul(capped, Frac(100, 1))), 100)

\* Mutant of SellConfidence: normalised by the width of the buy zone.
SellConfidenceBuyWidth(avg) == FracDiv(FracSub(Frac(41, 1), avg), Frac(100 - 41, 1))

\* determineActionAndConfidence line 112
SellConfidence(avg) == FracDiv(FracSub(Frac(41, 1), avg), Frac(41, 1))

\* determineActionAndConfidence line 107
BuyConfidence(avg) == FracDiv(FracSub(avg, Frac(59, 1)), Frac(100 - 59, 1))

\* determineActionAndConfidence lines 115-118
HoldConfidence(avg) ==
    LET mid       == Frac(59 + 41, 2)
        halfRange == Frac(59 - 41, 2)
    IN FracSub(Frac(1, 1), FracDiv(FracAbs(FracSub(avg, mid)), halfRange))

\* determineActionAndConfidence lines 95-126
DetermineActionAndConfidence(taGrade, quantGrade, tmGrade) ==
    LET avg == Frac(taGrade + quantGrade + tmGrade, 3)
    IN IF FracLeq(Frac(59, 1), avg)
       THEN [action |-> "BUY", confidence |-> CapAndRound(BuyConfidence(avg))]
       ELSE IF FracLeq(avg, Frac(41, 1))
       THEN [action |-> "SELL", confidence |-> CapAndRound(SellConfidence(avg))]
       ELSE [action |-> "HOLD", confidence |-> CapAndRound(HoldConfidence(avg))]

\* String.prototype.toUpperCase on the asset ids of the model
ToUpperCase(id) == IF id = "btc" THEN "BTC" ELSE id

\* generateSuggestions lines 44-45: the template strings
SpotSymbolOf(base) == IF base = "BTC" THEN "BTC/USDC" ELSE "ETH/USDC"
FuturesSymbolOf(base) == IF base = "BTC" THEN "BTC/USDC:USDC" ELSE "ETH/USDC:USDC"

\* generateSuggestions line 39: the name contains "binance-peg", in any case
IsBinancePeg(name) == name = "Binance-Peg Ethereum"

\* Mutant of SellNeedsFutures: a SELL is emitted on a spot market too.
SellAllowedOnSpot(action, hasFuturesMarket) == FALSE

\* generateSuggestions line 57
SellNeedsFutures(action, hasFuturesMarket) == action = "SELL" /\ ~hasFuturesMarket

\* Mutant of HasAnyMarket: assets without a market are kept.
HasAnyMarketAlways(hasSpotMarket, hasFuturesMarket) == TRUE

\* generateSuggestions line 54
HasAnyMarket(hasSpotMarket, hasFuturesMarket) == hasSpotMarket \/ hasFuturesMarket

\* Mutant of AlreadySeen: no collision guard.
NeverSeen(spotMarketSymbol, futuresMarketSymbol, seenMarkets) == FALSE

\* generateSuggestions lines 62-66: the guard looks up the spot symbol only
AlreadySeen(spotMarketSymbol, futuresMarketSymbol, seenMarkets) ==
    spotMarketSymbol \in seenMarkets

\* generateSuggestions lines 36-89: the loop over the grades, with the list
\* built so far and the set of spot symbols seen
RECURSIVE SuggestionLoop(_, _, _, _, _)
SuggestionLoop(list, spotMap, futuresMap, out, seenMarkets) ==
    IF list = <<>> THEN out
    ELSE LET grade               == Head(list)
             baseSymbolUpper     == ToUpperCase(grade.symbol_id)
             spotMarketSymbol    == SpotSymbolOf(baseSymbolUpper)
             futuresMarketSymbol == FuturesSymbolOf(baseSymbolUpper)
             hasSpotMarket       == spotMarketSymbol \in spotMap
             hasFuturesMarket    == futuresMarketSymbol \in futuresMap
             r == DetermineActionAndConfidence(grade.ta_grade, grade.quant_grade,
                                               grade.tm_grade)
         IN IF IsBinancePeg(grade.symbol)
            THEN SuggestionLoop(Tail(list), spotMap, futuresMap, out, seenMarkets)
            ELSE IF ~HasAnyMarket(hasSpotMarket, hasFuturesMarket)
            THEN SuggestionLoop(Tail(list), spotMap, futuresMap, out, seenMarkets)
            ELSE IF SellNeedsFutures(r.action, hasFuturesMarket)
            THEN SuggestionLoop(Tail(list), spotMap, futuresMap, out, seenMarkets)
            ELSE IF AlreadySeen(spotMarketSymbol, futuresMarketSymbol, seenMarkets)
            THEN SuggestionLoop(Tail(list), spotMap, futuresMap, out, seenMarkets)
            ELSE SuggestionLoop(Tail(list), spotMap, futuresMap,
                    Append(out,
                       [symbol_id     |-> grade.symbol_id,
                        symbol        |-> grade.symbol,
                        spotMarket    |-> IF hasSpotMarket THEN spotMarketSymbol ELSE "null",
                        futuresMarket |-> IF hasFuturesMarket THEN futuresMarketSymbol
                                                              ELSE "null",
                        action        |-> r.action,
                        confidence    |-> r.confidence,
                        details       |-> [ta_grade    |-> grade.ta_grade,
                                           quant_grade |-> grade.quant_grade,
                                           tm_grade    |-> grade.tm_grade]]),
                    IF hasSpotMarket THEN seenMarkets \cup {spotMarketSymbol}
                                     ELSE seenMarkets)

\* everything outside the suggestion generator
coreVars == <<genVars, uncaught, reconVars>>

\* generateSuggestions line 31: the call, up to `await getTraderGrades(...)`
GenerateSuggestions ==
    /\ sgPc \in {"idle", "done", "rejected"}
    /\ sgPc' = "awaitGrades"
    /\ traderGrades' = <<>>
    /\ suggestions' = <<>>
    /\ UNCHANGED <<coreVars, extVars, spotMarketInfoMap, futuresMarketInfoMap>>

\* generateSuggestions lines 32-92: getTraderGrades returned `list`
GetTraderGradesReturns(list) ==
    /\ sgPc = "awaitGrades"
    /\ sgPc' = "done"
    /\ traderGrades' = list
    /\ suggestions' = SuggestionLoop(list, spotMarketInfoMap, futuresMarketInfoMap, <<>>, {})
    /\ UNCHANGED <<coreVars, extVars, spotMarketInfoMap, futuresMarketInfoMap>>

\* generateSuggestions line 31: getTraderGrades rejected, the call rejects
GetTraderGradesFails ==
    /\ sgPc = "awaitGrades"
    /\ sgPc' = "rejected"
    /\ UNCHANGED <<coreVars, extVars, spotMarketInfoMap, futuresMarketInfoMap, traderGrades,
                   suggestions>>

\* TokenMetricsTraderGrade values
Grades       == 0..MaxGrade
GradeSamples == {<<20, 30, 10>>, <<50, 50, 50>>, <<80, 70, 90>>}   \* SELL, HOLD, BUY
AssetIds     == {"BTC", "btc", "ETH"}
AssetNames   == {"Bitcoin", "Binance-Peg Ethereum"}
SpotSymbols    == {"BTC/USDC", "ETH/USDC"}
FuturesSymbols == {"BTC/USDC:USDC", "ETH/USDC:USDC"}

\* lists getTraderGrades can return, over one triple of grades per action
SampleGrades ==
    {[symbol_id |-> id, symbol |-> name, ta_grade |-> g[1], quant_grade |-> g[2],
      tm_grade |-> g[3]] : id \in AssetIds, name \in AssetNames, g \in GradeSamples}
SampleGradeLists == UNION {[1..n -> SampleGrades] : n \in 0..MaxGrades}

\* the one-asset list with the given grades
SingleGradeList(ta, quant, tm) ==
    <<[symbol_id |-> "BTC", symbol |-> "Bitcoin", ta_grade |-> ta,
       quant_grade |-> quant, tm_grade |-> tm]>>

\* ------------------------------------------------- suggestion service
UpdateIds == 1..MaxUpdates

\* an updateAndStoreSuggestions slot with no call in progress
IdleUpdate == [pc |-> "idle", newSuggestions |-> <<>>, result |-> "none"]

PeriodicIds == 1..MaxPeriodicStarts

\* a startPeriodicUpdates call not made yet: `ran` counts the calls of
\* updateAndStoreSuggestions it made, `u` is the slot of the one it awaits
UnusedPeriodic == [pc |-> "unused", runImmediately |-> FALSE, ran |-> 0, u |-> 0]

\* Mutant of AlreadyRunning: the stored handle is not consulted.
AlreadyRunningNever(id) == FALSE

\* startPeriodicUpdates line 241: `if (this.updateIntervalId)`
AlreadyRunning(id) == id # 0

\* startPeriodicUpdates lines 252-254: setInterval, the handle is stored. The
\* handle is named after the call that creates it.
CreateSchedule(s, frame) ==
    /\ updateTimers' = updateTimers \cup {s}
    /\ updateIntervalId' = s
    /\ periodicPc' = [periodicPc EXCEPT ![s] = [frame EXCEPT !.pc = "done"]]

\* startPeriodicUpdates lines 248-254: `await this.updateAndStoreSuggestions()`
\* of slot u settled; the continuation of the call awaiting it, if any, runs
\* in the same turn of the event loop
PeriodicResume(u) ==
    IF \E s \in PeriodicIds : periodicPc[s].pc = "awaitUpdate" /\ periodicPc[s].u = u
    THEN LET s == CHOOSE x \in PeriodicIds :
                     periodicPc[x].pc = "awaitUpdate" /\ periodicPc[x].u = u
         IN /\ CreateSchedule(s, periodicPc[s])
            /\ UNCHANGED lastLog
    ELSE UNCHANGED schedVars

\* Mutant of IsUpdatingSkips: the flag is not consulted.
IsUpdatingIgnored(flag) == FALSE

\* updateAndStoreSuggestions line 213
IsUpdatingSkips(flag) == flag

\* Mutant of OnUpdateError: the catch block rethrows.
OnUpdateErrorRethrows == "rejected"

\* updateAndStoreSuggestions lines 223-232: the catch block logs and falls
\* through to finally, the promise resolves
OnUpdateError == "resolved"

\* updateAndStoreSuggestions lines 213-220: the call, up to
\* `await this.suggestionGenerator.generateSuggestions()`
UpdateAndStoreCall(u) ==
    /\ updates[u].pc = "idle"
    /\ generatorCalls < MaxRuns
    /\ IF IsUpdatingSkips(isUpdating)
       THEN /\ updates' = [updates EXCEPT ![u] =
                              [pc |-> "idle", newSuggestions |-> <<>>,
                               result |-> "skipped"]]
            /\ UNCHANGED <<isUpdating, generatorCalls>>
       ELSE /\ isUpdating' = TRUE
            /\ generatorCalls' = generatorCalls + 1
            /\ updates' = [updates EXCEPT ![u] =
                              [pc |-> "awaitGenerate", newSuggestions |-> <<>>,
                               result |-> "none"]]

\* updateAndStoreSuggestions called by a route or a script
UpdateAndStoreSuggestions(u) ==
    /\ UpdateAndStoreCall(u)
    /\ UNCHANGED <<storedSuggestions, saveCalls, errorLogs, schedVars>>
    /\ UNCHANGED <<coreVars, sugVars, catVars>>

\* the setInterval callback of startPeriodicUpdates (lines 252-254) for a
\* live handle t
PeriodicTick(t, u) ==
    /\ t \in updateTimers
    /\ UpdateAndStoreCall(u)
    /\ UNCHANGED <<storedSuggestions, saveCalls, errorLogs, schedVars>>
    /\ UNCHANGED <<coreVars, sugVars, catVars>>

\* startPeriodicUpdates lines 240-255: the call, up to the await of the
\* immediate update or, without one, to the end. An immediate update that is
\* skipped resolves at once and the continuation runs before any callback.
StartPeriodicUpdates(s, runImmediately) ==
    /\ periodicPc[s].pc = "unused"
    /\ IF AlreadyRunning(updateIntervalId)
       THEN /\ periodicPc' = [periodicPc EXCEPT ![s] =
                                 [pc |-> "ignored", runImmediately |-> runImmediately,
                                  ran |-> 0, u |-> 0]]
            /\ lastLog' = "alreadyRunning"
            /\ UNCHANGED <<updateIntervalId, updateTimers, isUpdating, updates,
                           generatorCalls>>
       ELSE /\ lastLog' = "starting"
            /\ IF runImmediately
               THEN \E u \in UpdateIds :
                       /\ UpdateAndStoreCall(u)
                       /\ IF IsUpdatingSkips(isUpdating)
                          THEN CreateSchedule(s, [pc |-> "unused", runImmediately |-> TRUE,
                                                  ran |-> 1, u |-> 0])
                          ELSE /\ periodicPc' = [periodicPc EXCEPT ![s] =
                                                    [pc |-> "awaitUpdate",
                                                     runImmediately |-> TRUE,
                                                     ran |-> 1, u |-> u]]
                               /\ UNCHANGED <<updateIntervalId, updateTimers>>
               ELSE /\ CreateSchedule(s, [pc |-> "unused", runImmediately |-> FALSE,
                                          ran |-> 0, u |-> 0])
                    /\ UNCHANGED <<isUpdating, updates, generatorCalls>>
    /\ UNCHANGED <<storedSuggestions, saveCalls, errorLogs>>
    /\ UNCHANGED <<coreVars, sugVars, catVars>>

\* stopPeriodicUpdates line 261: `if (this.updateIntervalId)`
HasSchedule(id) == id # 0

\* stopPeriodicUpdates lines 260-268
StopPeriodicUpdates ==
    /\ IF HasSchedule(updateIntervalId)
       THEN /\ updateTimers' = updateTimers \ {updateIntervalId}
            /\ updateIntervalId' = 0
            /\ lastLog' = "stopped"
       ELSE /\ lastLog' = "notRunning"
            /\ UNCHANGED <<updateIntervalId, updateTimers>>
    /\ UNCHANGED <<isUpdating, updates, storedSuggestions, generatorCalls, saveCalls,
                   errorLogs, periodicPc>>
    /\ UNCHANGED <<coreVars, sugVars, catVars>>

\* updateAndStoreSuggestions lines 220-221: the generator resolved with `list`,
\* saveSuggestions(list) is called
GenerateResolves(u, list) ==
    /\ updates[u].pc = "awaitGenerate"
    /\ updates' = [updates EXCEPT ![u].pc = "awaitSave", ![u].newSuggestions = list]
    /\ saveCalls' = saveCalls + 1
    /\ UNCHANGED <<isUpdating, storedSuggestions, generatorCalls, errorLogs, schedVars>>
    /\ UNCHANGED <<coreVars, sugVars, catVars>>

\* updateAndStoreSuggestions lines 220, 223-232: the generator rejected
GenerateRejects(u) ==
    /\ updates[u].pc = "awaitGenerate"
    /\ errorLogs' = errorLogs + 1
    /\ isUpdating' = FALSE
    /\ updates' = [updates EXCEPT ![u].pc = "idle", ![u].result = OnUpdateError]
    /\ PeriodicResume(u)
    /\ UNCHANGED <<storedSuggestions, generatorCalls, saveCalls>>
    /\ UNCHANGED <<coreVars, sugVars, catVars>>

\* updateAndStoreSuggestions lines 221-222, 230-232 and saveSuggestions
\* (storage.ts lines 13-15, 40-46): the storage holds the new list
SaveResolves(u) ==
    /\ updates[u].pc = "awaitSave"
    /\ storedSuggestions' = updates[u].newSuggestions
    /\ isUpdating' = FALSE
    /\ updates' = [updates EXCEPT ![u].pc = "idle", ![u].result = "resolved"]
    /\ PeriodicResume(u)
    /\ UNCHANGED <<generatorCalls, saveCalls, errorLogs>>
    /\ UNCHANGED <<coreVars, sugVars, catVars>>

\* updateAndStoreSuggestions lines 221, 223-232: saveSuggestions rejected
\* (storage.ts line 43: mkdir failed, nothing written)
SaveRejects(u) ==
    /\ updates[u].pc = "awaitSave"
    /\ errorLogs' = errorLogs + 1
    /\ isUpdating' = FALSE
    /\ updates' = [updates EXCEPT ![u].pc = "idle", ![u].result = OnUpdateError]
    /\ PeriodicResume(u)
    /\ UNCHANGED <<storedSuggestions, generatorCalls, saveCalls>>
    /\ UNCHANGED <<coreVars, sugVars, catVars>>

\* lists generateSuggestions can resolve with, over the full catalog
GeneratedLists ==
    {SuggestionLoop(list, SpotSymbols, FuturesSymbols, <<>>, {}) :
        list \in UNION {[1..n -> SampleGrades] : n \in 0..1}}


\* ------------------------------------------------------ market catalog
\* symbols the exchange can list, with the fields of a ccxt market that
\* loadMarkets reads; `active` is chosen per load
MarketShapes ==
    {[symbol |-> "BTC/USDC",      spot |-> TRUE,  type |-> "spot",   linear |-> FALSE,
      quote |-> "USDC"],
     [symbol |-> "ETH/USDC",      spot |-> TRUE,  type |-> "spot",   linear |-> FALSE,
      quote |-> "USDC"],
     [symbol |-> "BTC/USDT",      spot |-> TRUE,  type |-> "spot",   linear |-> FALSE,
      quote |-> "USDT"],
     [symbol |-> "BTC/USDC:USDC", spot |-> FALSE, type |-> "swap",   linear |-> TRUE,
      quote |-> "USDC"],
     [symbol |-> "BTC/USD:BTC",   spot |-> FALSE, type |-> "swap",   linear |-> FALSE,
      quote |-> "USD"],
     [symbol |-> "BTC/USDC:USDC-261225", spot |-> FALSE, type |-> "future",
      linear |-> TRUE, quote |-> "USDC"]}

\* a market as exchange.loadMarkets() returns it
MarketOf(shape, active) ==
    [symbol |-> shape.symbol, active |-> active, spot |-> shape.spot,
     type |-> shape.type, linear |-> shape.linear, quote |-> shape.quote]

AllMarkets == {MarketOf(shape, active) : shape \in MarketShapes, active \in BOOLEAN}

\* results of exchange.loadMarkets(): an object keyed by symbol
ExchangeMarketSets ==
    {ms \in SUBSET AllMarkets :
        /\ Cardinality(ms) <= MaxMarkets
        /\ \A m1, m2 \in ms : m1.symbol = m2.symbol => m1 = m2}

\* String.prototype.endsWith over the listed symbols
EndsWith(symbol, suffix) ==
    CASE suffix = "/USDC"      -> symbol \in {"BTC/USDC", "ETH/USDC"}
      [] suffix = "/USDC:USDC" -> symbol \in {"BTC/USDC:USDC"}
      [] OTHER                 -> FALSE

\* loadMarkets lines 43, 59
IsUsdcSpot(market) ==
    /\ market.active
    /\ market.spot /\ market.quote = "USDC" /\ EndsWith(market.symbol, "/USDC")

\* loadMarkets lines 43, 69
IsUsdcLinearPerpetual(market) ==
    /\ market.active
    /\ market.type = "swap" /\ market.linear /\ market.quote = "USDC"
    /\ EndsWith(market.symbol, "/USDC:USDC")

\* Mutant of RecordOnReload: the entries of the earlier load are kept.
RecordKeptOnReload(record) == record

\* loadMarkets lines 38-39: the records are emptied before the loop
RecordOnReload(record) == {}

\* loadMarkets line 33: the call, up to `await this.exchange.loadMarkets()`
LoadMarkets ==
    /\ loadPc # "awaitLoad"
    /\ loadPc' = "awaitLoad"
    /\ UNCHANGED <<markets, usdcSpotMarketInfo, usdcFuturesMarketInfo, placeCall>>
    /\ UNCHANGED <<coreVars, sugVars, svcVars>>

\* loadMarkets lines 35-82: the exchange returned `ms`
ExchangeLoadMarketsReturns(ms) ==
    /\ loadPc = "awaitLoad"
    /\ loadPc' = "done"
    /\ markets' = ms
    /\ usdcSpotMarketInfo' =
          RecordOnReload(usdcSpotMarketInfo) \cup {m.symbol : m \in {x \in ms : IsUsdcSpot(x)}}
    /\ usdcFuturesMarketInfo' =
          RecordOnReload(usdcFuturesMarketInfo)
             \cup {m.symbol : m \in {x \in ms : IsUsdcLinearPerpetual(x)}}
    /\ UNCHANGED placeCall
    /\ UNCHANGED <<coreVars, sugVars, svcVars>>

\* loadMarkets lines 35, 84-87: the exchange call rejected, the method throws
ExchangeLoadMarketsFails ==
    /\ loadPc = "awaitLoad"
    /\ loadPc' = "rejected"
    /\ UNCHANGED <<markets, usdcSpotMarketInfo, usdcFuturesMarketInfo, placeCall>>
    /\ UNCHANGED <<coreVars, sugVars, svcVars>>

\* property names every object literal inherits from Object.prototype
ObjectPrototypeKeys == {"constructor", "toString"}

\* the JavaScript `in` operator on a record created by `{}`: own keys and
\* the inherited ones
In(symbol, record) == symbol \in record \/ symbol \in ObjectPrototypeKeys

\* isValidUsdcSpotPair lines 104-106
IsValidUsdcSpotPair(symbol) == In(symbol, usdcSpotMarketInfo)

\* isValidUsdcFuturesPair lines 109-111
IsValidUsdcFuturesPair(symbol) == In(symbol, usdcFuturesMarketInfo)

\* no placeMarketOrder call made yet
NoPlaceCall == [pc |-> "idle", marketSymbol |-> "none", side |-> "none",
                marketType |-> "none", req |-> NoRequest, result |-> "none"]

\* symbols placeMarketOrder is called with
OrderSymbols == {"BTC/USDC", "ETH/USDC", "BTC/USDC:USDC", "DOGE/USDC", "constructor"}
MarketTypes  == {"spot", "futures"}
OrderAmount  == 5

\* placeMarketOrder lines 276-293: known ccxt errors are rethrown, the rest
\* is wrapped in a plain Error
Rethrown(err) == IF err = "Other" THEN "Error" ELSE err

\* placeMarketOrder lines 222-269: the call, up to the await of the exchange
\* request, or to the BadSymbol thrown by the validation
PlaceMarketOrder(marketSymbol, side, amount, marketType) ==
    /\ placeCall.pc # "awaitExchange"
    /\ LET isValidMarket == IF marketType = "spot"
                            THEN IsValidUsdcSpotPair(marketSymbol)
                            ELSE IsValidUsdcFuturesPair(marketSymbol)
       IN placeCall' =
             IF ~isValidMarket
             THEN [pc |-> "done", marketSymbol |-> marketSymbol, side |-> side,
                   marketType |-> marketType, req |-> NoRequest,
                   result |-> Rethrown("BadSymbol")]
             ELSE [pc |-> "awaitExchange", marketSymbol |-> marketSymbol, side |-> side,
                   marketType |-> marketType,
                   req |-> PlaceMarketOrderRequest(marketSymbol, side, amount,
                                                   marketType, {}),
                   result |-> "none"]
    /\ UNCHANGED <<markets, usdcSpotMarketInfo, usdcFuturesMarketInfo, loadPc>>
    /\ UNCHANGED <<coreVars, sugVars, svcVars>>

\* placeMarketOrder lines 273-274: the exchange accepted the order
ExchangeOrderReturns ==
    /\ placeCall.pc = "awaitExchange"
    /\ placeCall' = [placeCall EXCEPT !.pc = "done", !.result = "order"]
    /\ UNCHANGED <<markets, usdcSpotMarketInfo, usdcFuturesMarketInfo, loadPc>>
    /\ UNCHANGED <<coreVars, sugVars, svcVars>>

\* placeMarketOrder lines 276-294: the exchange request threw `err`
ExchangeOrderThrows(err) ==
    /\ placeCall.pc = "awaitExchange"
    /\ placeCall' = [placeCall EXCEPT !.pc = "done", !.result = Rethrown(err)]
    /\ UNCHANGED <<markets, usdcSpotMarketInfo, usdcFuturesMarketInfo, loadPc>>
    /\ UNCHANGED <<coreVars, sugVars, svcVars>>

\* ------------------------------------------------------------- system
\* rows the Trade table can hold before any closure
TradeRows ==
    {r \in [symbol : TradeSymbols, side : Sides, userId : UserIds, filled : {0, 5},
            tcState : {"OPEN", "COMPLETED"}, closeOrderId : {"null"},
            marketType : {"spot"}, cost : {Num(1000)}, closeCost : {Null},
            profit : {Null}, timestamp : {Num(100)}, closeTimestamp : {Null},
            closePrice : {Null}, durationMs : {Null}] :
        (r.tcState = "COMPLETED" \/ r.filled = 0) => (r.userId = "u1")}

\* closable rows on one symbol, of either market type, side and original cost
CloseRows ==
    [symbol : {"BTC/USDC"}, side : Sides, userId : {"u1"}, filled : {5},
     tcState : {"OPEN"}, closeOrderId : {"null"},
     marketType : {"spot", "futures"}, cost : {Num(1000), Num(3000), Null},
     closeCost : {Null}, profit : {Null}, timestamp : {Num(100)},
     closeTimestamp : {Null}, closePrice : {Null}, durationMs : {Null}]

\* the generator as constructed, no listener yet, one OPEN row per trade id
InitPoller ==
    /\ lastSignals = <<>>
    /\ intervalId = 0
    /\ isChecking = FALSE
    /\ stopped = FALSE
    /\ activeTimers = {}
    /\ inFlight = <<>>
    /\ startPc = [s \in StartIds |-> "unused"]
    /\ listeners = {}
    /\ uncaught = "none"
    /\ tickOutcome = "none"
    /\ events = <<>>
    /\ errorEmits = 0
    /\ trades = [t \in TradeIds |-> [symbol |-> "BTC/USDC", side |-> "buy", userId |-> "u1",
                                     filled |-> 5, tcState |-> "OPEN", closeOrderId |-> "null",
                                     marketType |-> "spot", cost |-> Num(1000),
                                     closeCost |-> Null, profit |-> Null,
                                     timestamp |-> Num(100), closeTimestamp |-> Null,
                                     closePrice |-> Null, durationMs |-> Null]]
    /\ procs = [p \in ProcIds |-> FreeProc]
    /\ lastOp = "none"
    /\ failed = {}
    /\ accepted = [t \in TradeIds |-> 0]
    /\ spotMarketInfoMap = {}
    /\ futuresMarketInfoMap = {}
    /\ sgPc = "idle"
    /\ traderGrades = <<>>
    /\ suggestions = <<>>
    /\ isUpdating = FALSE
    /\ updates = [u \in UpdateIds |-> IdleUpdate]
    /\ storedSuggestions = <<>>
    /\ generatorCalls = 0
    /\ saveCalls = 0
    /\ errorLogs = 0
    /\ updateIntervalId = 0
    /\ updateTimers = {}
    /\ periodicPc = [s \in PeriodicIds |-> UnusedPeriodic]
    /\ lastLog = "none"
    /\ markets = {}
    /\ usdcSpotMarketInfo = {}
    /\ usdcFuturesMarketInfo = {}
    /\ loadPc = "idle"
    /\ placeCall = NoPlaceCall

\* the poller with the listeners of build(); a listener's processSignal call
\* queries the store under the feed's symbol
NextPoller ==
    \/ \E s \in StartIds : Start(s)
    \/ \E s \in StartIds : StartResume(s)
    \/ Stop
    \/ \E t \in StartIds : TimerFire(t)
    \/ \E i \in 1..MaxInFlight : \E list \in SignalLists : FeedReturns(i, list)
    \/ \E i \in 1..MaxInFlight : FeedEmpty(i)
    \/ \E i \in 1..MaxInFlight : FeedFails(i)
    \/ \E p \in ProcIds : FindOpenReturns(p)
    \/ \E p \in ProcIds : FindOpenFails(p)

SpecPoller == InitPoller /\ [][NextPoller]_vars

\* the reconciler alone, over every content of the Trade table
InitRecon ==
    /\ lastSignals = <<>>
    /\ intervalId = 0
    /\ isChecking = FALSE
    /\ stopped = FALSE
    /\ activeTimers = {}
    /\ inFlight = <<>>
    /\ startPc = [s \in StartIds |-> "unused"]
    /\ listeners = {}
    /\ uncaught = "none"
    /\ tickOutcome = "none"
    /\ events = <<>>
    /\ errorEmits = 0
    /\ trades \in [TradeIds -> TradeRows]
    /\ procs = [p \in ProcIds |-> FreeProc]
    /\ lastOp = "none"
    /\ failed = {}
    /\ accepted = [t \in TradeIds |-> 0]
    /\ spotMarketInfoMap = {}
    /\ futuresMarketInfoMap = {}
    /\ sgPc = "idle"
    /\ traderGrades = <<>>
    /\ suggestions = <<>>
    /\ isUpdating = FALSE
    /\ updates = [u \in UpdateIds |-> IdleUpdate]
    /\ storedSuggestions = <<>>
    /\ generatorCalls = 0
    /\ saveCalls = 0
    /\ errorLogs = 0
    /\ updateIntervalId = 0
    /\ updateTimers = {}
    /\ periodicPc = [s \in PeriodicIds |-> UnusedPeriodic]
    /\ lastLog = "none"
    /\ markets = {}
    /\ usdcSpotMarketInfo = {}
    /\ usdcFuturesMarketInfo = {}
    /\ loadPc = "idle"
    /\ placeCall = NoPlaceCall

NextRecon ==
    \/ \E side \in Sides : \E symbol \in TradeSymbols : CallProcessSignal(side, symbol)
    \/ \E p \in ProcIds : FindOpenReturns(p)
    \/ \E p \in ProcIds : FindOpenFails(p)
    \/ \E p \in ProcIds : \E found \in BOOLEAN : FindByIdReturns(p, found)
    \/ \E p \in ProcIds : FindByIdFails(p)
    \/ \E p \in ProcIds : \E order \in FilledOrders : PlaceOrderReturns(p, order)
    \/ \E p \in ProcIds : \E err \in OrderErrors : PlaceOrderThrows(p, err)
    \/ \E p \in ProcIds : UpdateReturns(p)
    \/ \E p \in ProcIds : UpdateThrows(p)

SpecRecon == InitRecon /\ [][NextRecon]_vars

\* the reconciler called for one signal at a time over closable rows, with
\* every kind of order the exchange can return
InitClose ==
    /\ lastSignals = <<>>
    /\ intervalId = 0
    /\ isChecking = FALSE
    /\ stopped = FALSE
    /\ activeTimers = {}
    /\ inFlight = <<>>
    /\ startPc = [s \in StartIds |-> "unused"]
    /\ listeners = {}
    /\ uncaught = "none"
    /\ tickOutcome = "none"
    /\ events = <<>>
    /\ errorEmits = 0
    /\ trades \in [TradeIds -> CloseRows]
    /\ procs = [p \in ProcIds |-> FreeProc]
    /\ lastOp = "none"
    /\ failed = {}
    /\ accepted = [t \in TradeIds |-> 0]
    /\ spotMarketInfoMap = {}
    /\ futuresMarketInfoMap = {}
    /\ sgPc = "idle"
    /\ traderGrades = <<>>
    /\ suggestions = <<>>
    /\ isUpdating = FALSE
    /\ updates = [u \in UpdateIds |-> IdleUpdate]
    /\ storedSuggestions = <<>>
    /\ generatorCalls = 0
    /\ saveCalls = 0
    /\ errorLogs = 0
    /\ updateIntervalId = 0
    /\ updateTimers = {}
    /\ periodicPc = [s \in PeriodicIds |-> UnusedPeriodic]
    /\ lastLog = "none"
    /\ markets = {}
    /\ usdcSpotMarketInfo = {}
    /\ usdcFuturesMarketInfo = {}
    /\ loadPc = "idle"
    /\ placeCall = NoPlaceCall

NextClose ==
    \/ \E side \in Sides : CallProcessSignalAlone(side, "BTC/USDC")
    \/ \E p \in ProcIds : FindOpenReturns(p)
    \/ \E p \in ProcIds : FindOpenFails(p)
    \/ \E p \in ProcIds : \E found \in BOOLEAN : FindByIdReturns(p, found)
    \/ \E p \in ProcIds : \E order \in ClosingOrders : PlaceOrderReturns(p, order)
    \/ \E p \in ProcIds : \E err \in OrderErrors : PlaceOrderThrows(p, err)
    \/ \E p \in ProcIds : UpdateReturns(p)
    \/ \E p \in ProcIds : UpdateThrows(p)

SpecClose == InitClose /\ [][NextClose]_vars

\* the suggestion generator over every catalog content
InitSuggest ==
    /\ lastSignals = <<>>
    /\ intervalId = 0
    /\ isChecking = FALSE
    /\ stopped = FALSE
    /\ activeTimers = {}
    /\ inFlight = <<>>
    /\ startPc = [s \in StartIds |-> "unused"]
    /\ listeners = {}
    /\ uncaught = "none"
    /\ tickOutcome = "none"
    /\ events = <<>>
    /\ errorEmits = 0
    /\ trades = <<>>
    /\ procs = [p \in ProcIds |-> FreeProc]
    /\ lastOp = "none"
    /\ failed = {}
    /\ accepted = [t \in TradeIds |-> 0]
    /\ spotMarketInfoMap \in SUBSET SpotSymbols
    /\ futuresMarketInfoMap \in SUBSET FuturesSymbols
    /\ sgPc = "idle"
    /\ traderGrades = <<>>
    /\ suggestions = <<>>
    /\ isUpdating = FALSE
    /\ updates = [u \in UpdateIds |-> IdleUpdate]
    /\ storedSuggestions = <<>>
    /\ generatorCalls = 0
    /\ saveCalls = 0
    /\ errorLogs = 0
    /\ updateIntervalId = 0
    /\ updateTimers = {}
    /\ periodicPc = [s \in PeriodicIds |-> UnusedPeriodic]
    /\ lastLog = "none"
    /\ markets = {}
    /\ usdcSpotMarketInfo = {}
    /\ usdcFuturesMarketInfo = {}
    /\ loadPc = "idle"
    /\ placeCall = NoPlaceCall

NextSuggest ==
    \/ GenerateSuggestions
    \/ /\ sgPc = "awaitGrades"
       /\ \E list \in SampleGradeLists : GetTraderGradesReturns(list)
    \/ GetTraderGradesFails

SpecSuggest == InitSuggest /\ [][NextSuggest]_vars

\* the classifier over every triple of grades, for an asset with both markets
InitClassify ==
    /\ lastSignals = <<>>
    /\ intervalId = 0
    /\ isChecking = FALSE
    /\ stopped = FALSE
    /\ activeTimers = {}
    /\ inFlight = <<>>
    /\ startPc = [s \in StartIds |-> "unused"]
    /\ listeners = {}
    /\ uncaught = "none"
    /\ tickOutcome = "none"
    /\ events = <<>>
    /\ errorEmits = 0
    /\ trades = <<>>
    /\ procs = [p \in ProcIds |-> FreeProc]
    /\ lastOp = "none"
    /\ failed = {}
    /\ accepted = [t \in TradeIds |-> 0]
    /\ spotMarketInfoMap = SpotSymbols
    /\ futuresMarketInfoMap = FuturesSymbols
    /\ sgPc = "idle"
    /\ traderGrades = <<>>
    /\ suggestions = <<>>
    /\ isUpdating = FALSE
    /\ updates = [u \in UpdateIds |-> IdleUpdate]
    /\ storedSuggestions = <<>>
    /\ generatorCalls = 0
    /\ saveCalls = 0
    /\ errorLogs = 0
    /\ updateIntervalId = 0
    /\ updateTimers = {}
    /\ periodicPc = [s \in PeriodicIds |-> UnusedPeriodic]
    /\ lastLog = "none"
    /\ markets = {}
    /\ usdcSpotMarketInfo = {}
    /\ usdcFuturesMarketInfo = {}
    /\ loadPc = "idle"
    /\ placeCall = NoPlaceCall

NextClassify ==
    \/ GenerateSuggestions
    \/ /\ sgPc = "awaitGrades"
       /\ \E ta, quant, tm \in Grades : GetTraderGradesReturns(SingleGradeList(ta, quant, tm))
    \/ GetTraderGradesFails

SpecClassify == InitClassify /\ [][NextClassify]_vars

\* the suggestion service with overlapping updateAndStoreSuggestions calls
InitService ==
    /\ lastSignals = <<>>
    /\ intervalId = 0
    /\ isChecking = FALSE
    /\ stopped = FALSE
    /\ activeTimers = {}
    /\ inFlight = <<>>
    /\ startPc = [s \in StartIds |-> "unused"]
    /\ listeners = {}
    /\ uncaught = "none"
    /\ tickOutcome = "none"
    /\ events = <<>>
    /\ errorEmits = 0
    /\ trades = <<>>
    /\ procs = [p \in ProcIds |-> FreeProc]
    /\ lastOp = "none"
    /\ failed = {}
    /\ accepted = [t \in TradeIds |-> 0]
    /\ spotMarketInfoMap = SpotSymbols
    /\ futuresMarketInfoMap = FuturesSymbols
    /\ sgPc = "idle"
    /\ traderGrades = <<>>
    /\ suggestions = <<>>
    /\ isUpdating = FALSE
    /\ updates = [u \in UpdateIds |-> IdleUpdate]
    /\ storedSuggestions = <<>>
    /\ generatorCalls = 0
    /\ saveCalls = 0
    /\ errorLogs = 0
    /\ updateIntervalId = 0
    /\ updateTimers = {}
    /\ periodicPc = [s \in PeriodicIds |-> UnusedPeriodic]
    /\ lastLog = "none"
    /\ markets = {}
    /\ usdcSpotMarketInfo = {}
    /\ usdcFuturesMarketInfo = {}
    /\ loadPc = "idle"
    /\ placeCall = NoPlaceCall

NextService ==
    \/ \E u \in UpdateIds : UpdateAndStoreSuggestions(u)
    \/ \E u \in UpdateIds : \E list \in GeneratedLists : GenerateResolves(u, list)
    \/ \E u \in UpdateIds : GenerateRejects(u)
    \/ \E u \in UpdateIds : SaveResolves(u)
    \/ \E u \in UpdateIds : SaveRejects(u)

SpecService == InitService /\ [][NextService]_vars

\* the suggestion service with its periodic schedule
InitPeriodic ==
    /\ lastSignals = <<>>
    /\ intervalId = 0
    /\ isChecking = FALSE
    /\ stopped = FALSE
    /\ activeTimers = {}
    /\ inFlight = <<>>
    /\ startPc = [s \in StartIds |-> "unused"]
    /\ listeners = {}
    /\ uncaught = "none"
    /\ tickOutcome = "none"
    /\ events = <<>>
    /\ errorEmits = 0
    /\ trades = <<>>
    /\ procs = [p \in ProcIds |-> FreeProc]
    /\ lastOp = "none"
    /\ failed = {}
    /\ accepted = [t \in TradeIds |-> 0]
    /\ spotMarketInfoMap = SpotSymbols
    /\ futuresMarketInfoMap = FuturesSymbols
    /\ sgPc = "idle"
    /\ traderGrades = <<>>
    /\ suggestions = <<>>
    /\ isUpdating = FALSE
    /\ updates = [u \in UpdateIds |-> IdleUpdate]
    /\ storedSuggestions = <<>>
    /\ generatorCalls = 0
    /\ saveCalls = 0
    /\ errorLogs = 0
    /\ updateIntervalId = 0
    /\ updateTimers = {}
    /\ periodicPc = [s \in PeriodicIds |-> UnusedPeriodic]
    /\ lastLog = "none"
    /\ markets = {}
    /\ usdcSpotMarketInfo = {}
    /\ usdcFuturesMarketInfo = {}
    /\ loadPc = "idle"
    /\ placeCall = NoPlaceCall

NextPeriodic ==
    \/ \E s \in PeriodicIds, runImmediately \in BOOLEAN :
          StartPeriodicUpdates(s, runImmediately)
    \/ StopPeriodicUpdates
    \/ \E t \in PeriodicIds, u \in UpdateIds : PeriodicTick(t, u)
    \/ \E u \in UpdateIds : \E list \in GeneratedLists : GenerateResolves(u, list)
    \/ \E u \in UpdateIds : GenerateRejects(u)
    \/ \E u \in UpdateIds : SaveResolves(u)
    \/ \E u \in UpdateIds : SaveRejects(u)

SpecPeriodic == InitPeriodic /\ [][NextPeriodic]_vars

\* loads that differ in the USDC markets the exchange lists
UsdcMarketSets ==
    {ms \in ExchangeMarketSets : \A m \in ms : IsUsdcSpot(m) \/ IsUsdcLinearPerpetual(m)}

\* bootstrapApp: the catalog is loaded, then the generator is constructed with
\* the copies getUsdcSpotMarketInfo() and getUsdcFuturesMarketInfo() return
InitWired ==
    /\ markets \in UsdcMarketSets
    /\ usdcSpotMarketInfo = {m.symbol : m \in {x \in markets : IsUsdcSpot(x)}}
    /\ usdcFuturesMarketInfo =
          {m.symbol : m \in {x \in markets : IsUsdcLinearPerpetual(x)}}
    /\ lastSignals = <<>>
    /\ intervalId = 0
    /\ isChecking = FALSE
    /\ stopped = FALSE
    /\ activeTimers = {}
    /\ inFlight = <<>>
    /\ startPc = [s \in StartIds |-> "unused"]
    /\ listeners = {}
    /\ uncaught = "none"
    /\ tickOutcome = "none"
    /\ events = <<>>
    /\ errorEmits = 0
    /\ trades = <<>>
    /\ procs = [p \in ProcIds |-> FreeProc]
    /\ lastOp = "none"
    /\ failed = {}
    /\ accepted = [t \in TradeIds |-> 0]
    /\ spotMarketInfoMap = usdcSpotMarketInfo
    /\ futuresMarketInfoMap = usdcFuturesMarketInfo
    /\ sgPc = "idle"
    /\ traderGrades = <<>>
    /\ suggestions = <<>>
    /\ isUpdating = FALSE
    /\ updates = [u \in UpdateIds |-> IdleUpdate]
    /\ storedSuggestions = <<>>
    /\ generatorCalls = 0
    /\ saveCalls = 0
    /\ errorLogs = 0
    /\ updateIntervalId = 0
    /\ updateTimers = {}
    /\ periodicPc = [s \in PeriodicIds |-> UnusedPeriodic]
    /\ lastLog = "none"
    /\ loadPc = "done"
    /\ placeCall = NoPlaceCall

\* the catalog is refreshed and classification passes run
NextWired ==
    \/ LoadMarkets
    \/ /\ loadPc = "awaitLoad"
       /\ \E ms \in UsdcMarketSets : ExchangeLoadMarketsReturns(ms)
    \/ GenerateSuggestions
    \/ /\ sgPc = "awaitGrades"
       /\ \E list \in SampleGradeLists : GetTraderGradesReturns(list)

SpecWired == InitWired /\ [][NextWired]_vars

\* the market catalog: refreshes and order placements
InitCatalog ==
    /\ lastSignals = <<>>
    /\ intervalId = 0
    /\ isChecking = FALSE
    /\ stopped = FALSE
    /\ activeTimers = {}
    /\ inFlight = <<>>
    /\ startPc = [s \in StartIds |-> "unused"]
    /\ listeners = {}
    /\ uncaught = "none"
    /\ tickOutcome = "none"
    /\ events = <<>>
    /\ errorEmits = 0
    /\ trades = <<>>
    /\ procs = [p \in ProcIds |-> FreeProc]
    /\ lastOp = "none"
    /\ failed = {}
    /\ accepted = [t \in TradeIds |-> 0]
    /\ spotMarketInfoMap = SpotSymbols
    /\ futuresMarketInfoMap = FuturesSymbols
    /\ sgPc = "idle"
    /\ traderGrades = <<>>
    /\ suggestions = <<>>
    /\ isUpdating = FALSE
    /\ updates = [u \in UpdateIds |-> IdleUpdate]
    /\ storedSuggestions = <<>>
    /\ generatorCalls = 0
    /\ saveCalls = 0
    /\ errorLogs = 0
    /\ updateIntervalId = 0
    /\ updateTimers = {}
    /\ periodicPc = [s \in PeriodicIds |-> UnusedPeriodic]
    /\ lastLog = "none"
    /\ markets = {}
    /\ usdcSpotMarketInfo = {}
    /\ usdcFuturesMarketInfo = {}
    /\ loadPc = "idle"
    /\ placeCall = NoPlaceCall

NextCatalog ==
    \/ LoadMarkets
    \/ /\ loadPc = "awaitLoad"
       /\ \E ms \in ExchangeMarketSets : ExchangeLoadMarketsReturns(ms)
    \/ ExchangeLoadMarketsFails
    \/ \E marketSymbol \in OrderSymbols, side \in Sides, marketType \in MarketTypes :
          PlaceMarketOrder(marketSymbol, side, OrderAmount, marketType)
    \/ ExchangeOrderReturns
    \/ \E err \in OrderErrors \cup {"NotSupported"} : ExchangeOrderThrows(err)

SpecCatalog == InitCatalog /\ [][NextCatalog]_vars

\* two OPEN positions of one owner on one symbol, on either side
OverlapRows ==
    [symbol : {"BTC/USDC"}, side : Sides, userId : {"u1"}, filled : {5},
     tcState : {"OPEN"}, closeOrderId : {"null"},
     marketType : {"spot"}, cost : {Num(1000)}, closeCost : {Null}, profit : {Null},
     timestamp : {Num(100)}, closeTimestamp : {Null}, closePrice : {Null},
     durationMs : {Null}]

\* two orders the exchange can tell apart
OverlapOrders ==
    {[id |-> "close", cost |-> Num(1010), average |-> Num(202), timestamp |-> Num(500)],
     [id |-> "close2", cost |-> Num(2980), average |-> Num(596), timestamp |-> Num(600)]}

\* the reconciler with overlapping invocations for one symbol
InitOverlap ==
    /\ lastSignals = <<>>
    /\ intervalId = 0
    /\ isChecking = FALSE
    /\ stopped = FALSE
    /\ activeTimers = {}
    /\ inFlight = <<>>
    /\ startPc = [s \in StartIds |-> "unused"]
    /\ listeners = {}
    /\ uncaught = "none"
    /\ tickOutcome = "none"
    /\ events = <<>>
    /\ errorEmits = 0
    /\ trades \in [TradeIds -> OverlapRows]
    /\ procs = [p \in ProcIds |-> FreeProc]
    /\ lastOp = "none"
    /\ failed = {}
    /\ accepted = [t \in TradeIds |-> 0]
    /\ spotMarketInfoMap = {}
    /\ futuresMarketInfoMap = {}
    /\ sgPc = "idle"
    /\ traderGrades = <<>>
    /\ suggestions = <<>>
    /\ isUpdating = FALSE
    /\ updates = [u \in UpdateIds |-> IdleUpdate]
    /\ storedSuggestions = <<>>
    /\ generatorCalls = 0
    /\ saveCalls = 0
    /\ errorLogs = 0
    /\ updateIntervalId = 0
    /\ updateTimers = {}
    /\ periodicPc = [s \in PeriodicIds |-> UnusedPeriodic]
    /\ lastLog = "none"
    /\ markets = {}
    /\ usdcSpotMarketInfo = {}
    /\ usdcFuturesMarketInfo = {}
    /\ loadPc = "idle"
    /\ placeCall = NoPlaceCall

NextOverlap ==
    \/ \E side \in Sides : CallProcessSignal(side, "BTC/USDC")
    \/ \E p \in ProcIds : FindOpenReturns(p)
    \/ \E p \in ProcIds : FindByIdReturns(p, TRUE)
    \/ \E p \in ProcIds : \E order \in OverlapOrders : PlaceOrderReturns(p, order)
    \/ \E p \in ProcIds : UpdateReturns(p)
    \/ \E p \in ProcIds : UpdateThrows(p)

SpecOverlap == InitOverlap /\ [][NextOverlap]_vars

\* orders the exchange can accept: ccxt leaves out the timestamp or the
\* average price of an order the exchange did not report them for
PersistOrders ==
    [id : {"close"}, cost : {Num(1010)}, average : {Num(202), Undefined},
     timestamp : {Num(500), Undefined}]

\* one processSignal invocation at a time, every request answered
NextPersist ==
    \/ \E side \in Sides : CallProcessSignalAlone(side, "BTC/USDC")
    \/ \E p \in ProcIds : FindOpenReturns(p)
    \/ \E p \in ProcIds : FindByIdReturns(p, TRUE)
    \/ \E p \in ProcIds : \E order \in PersistOrders : PlaceOrderReturns(p, order)
    \/ \E p \in ProcIds : UpdateReturns(p)

SpecPersist == InitOverlap /\ [][NextPersist]_vars

\* the poller wired to the reconciler as build() does, over a table of OPEN
\* positions, with an exchange and a store that answer every request
InitSystem ==
    /\ lastSignals = <<>>
    /\ intervalId = 0
    /\ isChecking = FALSE
    /\ stopped = FALSE
    /\ activeTimers = {}
    /\ inFlight = <<>>
    /\ startPc = [s \in StartIds |-> "unused"]
    /\ listeners = {}
    /\ uncaught = "none"
    /\ tickOutcome = "none"
    /\ events = <<>>
    /\ errorEmits = 0
    /\ trades \in [TradeIds -> OverlapRows]
    /\ procs = [p \in ProcIds |-> FreeProc]
    /\ lastOp = "none"
    /\ failed = {}
    /\ accepted = [t \in TradeIds |-> 0]
    /\ spotMarketInfoMap = {}
    /\ futuresMarketInfoMap = {}
    /\ sgPc = "idle"
    /\ traderGrades = <<>>
    /\ suggestions = <<>>
    /\ isUpdating = FALSE
    /\ updates = [u \in UpdateIds |-> IdleUpdate]
    /\ storedSuggestions = <<>>
    /\ generatorCalls = 0
    /\ saveCalls = 0
    /\ errorLogs = 0
    /\ updateIntervalId = 0
    /\ updateTimers = {}
    /\ periodicPc = [s \in PeriodicIds |-> UnusedPeriodic]
    /\ lastLog = "none"
    /\ markets = {}
    /\ usdcSpotMarketInfo = {}
    /\ usdcFuturesMarketInfo = {}
    /\ loadPc = "idle"
    /\ placeCall = NoPlaceCall

\* the steps that carry a processSignal invocation forward
ReconStep ==
    \/ \E p \in ProcIds : FindOpenReturns(p)
    \/ \E p \in ProcIds : FindByIdReturns(p, TRUE)
    \/ \E p \in ProcIds : \E order \in FilledOrders : PlaceOrderReturns(p, order)
    \/ \E p \in ProcIds : UpdateReturns(p)

NextSystem ==
    \/ Start(1)
    \/ TimerFire(1)
    \/ \E list \in SignalLists : FeedReturns(1, list)
    \/ \E side \in Sides : CallProcessSignalAlone(side, "BTC/USDC")
    \/ ReconStep

\* every pending answer of the store and of the exchange arrives
SpecSystem == InitSystem /\ [][NextSystem]_vars /\ WF_vars(ReconStep)

\* ------------------------------------------------------------ claims
\* a checkSignals body ended in this step
TickEnds == Len(inFlight') < Len(inFlight)

\* the value recorded for entry i's asset when entry i is evaluated: the
\* latest earlier entry of the list for that asset, else the map before the tick
EarlierSame(log, i) == {j \in 1..(i - 1) : log[j].symbol = log[i].symbol}
PrevKnown(pre, log, i) == EarlierSame(log, i) # {} \/ log[i].symbol \in DOMAIN pre
PrevValue(pre, log, i) ==
    IF EarlierSame(log, i) # {}
    THEN log[CHOOSE j \in EarlierSame(log, i) : \A k \in EarlierSame(log, i) : k <= j].cur
    ELSE pre[log[i].symbol]

\* C1: a completed poll tick emits 'buy' for an entry iff the previously
\* recorded value is -1, 0 or missing and the new value is 1, 'sell' iff the
\* previous value is 1, 0 or missing and the new value is -1, and nothing on
\* any other transition.
C1_EdgeTriggered ==
    [][(TickEnds /\ tickOutcome' = "complete") =>
         \A i \in 1..Len(events') :
            LET e       == events'[i]
                missing == ~PrevKnown(lastSignals, events', i)
                prev    == IF missing THEN 0 ELSE PrevValue(lastSignals, events', i)
            IN /\ e.ev \in {"buy", "sell", "none"}
               /\ (e.ev = "buy")  <=> ((missing \/ prev \in {-1, 0}) /\ e.cur = 1)
               /\ (e.ev = "sell") <=> ((missing \/ prev \in {1, 0}) /\ e.cur = -1)]_vars

\* C1 witness: one completed tick that fired a buy on a first entry and stayed
\* silent on a steady 1 -> 1 entry for the same asset.
C1_Witness ==
    /\ tickOutcome = "complete"
    /\ Len(events) = 2
    /\ events[1].symbol = events[2].symbol
    /\ events[1].ev = "buy"
    /\ events[2].cur = 1
    /\ events[2].ev = "none"

\* C2: only positions whose original side is the opposite of the signal side,
\* on the signal's symbol, get a closing order or a closure update; every other
\* row is left as it is.
C2_OnlyOppositeSide ==
    [][/\ \A p \in ProcIds :
            procs'[p].pc \in {"order", "update"} =>
               LET row == trades'[procs'[p].open[procs'[p].idx]]
               IN /\ row.side # procs'[p].signalSide
                  /\ row.symbol = procs'[p].symbol
       /\ \A t \in TradeIds :
            trades'[t] # trades[t] =>
               \E p \in ProcIds :
                  /\ procs[p].pc = "update"
                  /\ procs[p].open[procs[p].idx] = t
                  /\ trades[t].side # procs[p].signalSide
                  /\ trades[t].symbol = procs[p].symbol]_vars

\* C2 witness: two rows on one symbol, the sell-side one closed by a
\* reconciliation, the buy-side one still OPEN and closable, nothing in flight.
C2_Witness ==
    /\ \A p \in ProcIds : procs[p].pc = "free"
    /\ lastOp = "updateReturned"
    /\ \E t1, t2 \in TradeIds :
          /\ trades[t1].symbol = trades[t2].symbol
          /\ trades[t1].side = "sell" /\ trades[t1].tcState = "COMPLETED"
          /\ trades[t1].closeOrderId = "close"
          /\ trades[t2].side = "buy" /\ trades[t2].tcState = "OPEN"
          /\ trades[t2].filled > 0 /\ trades[t2].closeOrderId = "null"

\* C3: a row's lifecycle state changes only from OPEN to COMPLETED, only by a
\* closure update that returned, and that update is only issued after the
\* exchange accepted the closing order; no row disappears.
C3_OpenToCompletedOnly ==
    [][/\ DOMAIN trades' = DOMAIN trades
       /\ \A t \in TradeIds :
            trades'[t].tcState # trades[t].tcState =>
               /\ trades[t].tcState = "OPEN"
               /\ trades'[t].tcState = "COMPLETED"
               /\ lastOp' = "updateReturned"
               /\ \E p \in ProcIds : procs[p].pc = "update" /\ procs[p].open[procs[p].idx] = t
       /\ \A p \in ProcIds :
            (procs'[p].pc = "update" /\ procs[p].pc # "update") =>
               (lastOp' = "orderAccepted" /\ procs[p].pc = "order")]_vars

\* C3 witness: a row that a reconciliation moved to COMPLETED.
C3_Witness ==
    /\ lastOp = "updateReturned"
    /\ \E t \in TradeIds : trades[t].tcState = "COMPLETED" /\ trades[t].closeOrderId = "close"

\* C4: when placeMarketOrder throws, no row changes, no closure update is
\* issued for the position, processSignal does not reject, and the loop goes
\* to the next matched position (or ends when there is none).
C4_OrderErrorContained ==
    [][lastOp' = "orderThrew" =>
         \A p \in ProcIds :
            (procs[p].pc = "order" /\ procs'[p] # procs[p]) =>
               /\ trades' = trades
               /\ uncaught' = "none"
               /\ procs'[p].pc # "update"
               /\ IF procs[p].idx < Len(procs[p].open)
                  THEN procs'[p] = NextIteration(procs[p])
                  ELSE procs'[p] = FreeProc]_vars

\* C4 witness: the order for the first matched position threw, that position
\* is still OPEN and the loop is at the second one.
C4_Witness ==
    /\ lastOp = "orderThrew"
    /\ uncaught = "none"
    /\ \E p \in ProcIds :
          /\ procs[p].pc = "user"
          /\ procs[p].idx = 2
          /\ trades[procs[p].open[1]].tcState = "OPEN"
          /\ trades[procs[p].open[1]].closeOrderId = "null"

\* C5: while a tick body awaits the feed no second body starts, and an
\* invocation that was skipped leaves the map, the flag, the pending fetch and
\* the emitted events as they were.
C5_NoOverlappingTicks ==
    [][isChecking =>
         /\ Len(inFlight) <= 1
         /\ Len(inFlight') <= Len(inFlight)
         /\ (tickOutcome' = "skipped" =>
               UNCHANGED <<lastSignals, isChecking, inFlight, events, errorEmits>>)]_vars

\* C5 witness: an invocation was skipped while a body is still awaiting the feed.
C5_Witness ==
    /\ tickOutcome = "skipped"
    /\ isChecking
    /\ Len(inFlight) = 1

\* C6: start() called twice leaves at most one active repeating schedule.
C6_OneSchedule == Cardinality(activeTimers) <= 1

C8_FlagCleared == isChecking => Len(inFlight) > 0

\* C8 witness: a tick body ended by a fetch failure, with the flag clear and
\* the process alive.
C8_Witness ==
    /\ tickOutcome = "failed"
    /\ ~isChecking
    /\ inFlight = <<>>
    /\ uncaught = "none"

\* C9: a tick whose fetch fails emits 'error' once, emits no buy or sell,
\* starts no reconciliation and leaves the last-signal map as it was.
C9_FailedTickChangesNothing ==
    [][(TickEnds /\ tickOutcome' = "failed") =>
         /\ errorEmits' = 1
         /\ events' = <<>>
         /\ procs' = procs
         /\ lastSignals' = lastSignals]_vars

\* C9 witness: a failed tick after values were recorded, which are still there.
C9_Witness ==
    /\ tickOutcome = "failed"
    /\ errorEmits = 1
    /\ events = <<>>
    /\ DOMAIN lastSignals = FeedSymbols

\* C10: when the query returns no row, processSignal ends at once: no owner
\* lookup, no order, no update, no rejection.
C10_NoMatchNoCalls ==
    [][lastOp' = "findReturned" =>
         \A p \in ProcIds :
            (/\ procs[p].pc = "find"
             /\ procs'[p] # procs[p]
             /\ FindOpenTrades(procs[p].symbol, procs[p].oppositeSide) = <<>>) =>
               /\ procs'[p] = FreeProc
               /\ trades' = trades
               /\ uncaught' = "none"]_vars

\* C10 witness: a query just returned nothing although an OPEN row exists
\* (on the other side or symbol), and no row was touched.
C10_Witness ==
    /\ lastOp = "findReturned"
    /\ \A p \in ProcIds : procs[p].pc = "free"
    /\ \E t \in TradeIds : trades[t].tcState = "OPEN" /\ trades[t].filled > 0
    /\ \A t \in TradeIds : trades[t].closeOrderId = "null"

\* C11: when the query for open positions throws, the pass is abandoned: the
\* invocation ends without an owner lookup, an order or an update, every row
\* keeps its state and processSignal does not reject.
C11_QueryFailureAbandonsPass ==
    [][lastOp' = "findThrew" =>
         \E p \in ProcIds :
            /\ procs[p].pc = "find"
            /\ procs' = [procs EXCEPT ![p] = FreeProc]
            /\ trades' = trades
            /\ uncaught' = "none"]_vars

\* C11 witness: a query just threw, nothing is in flight, and every row is
\* still an untouched closable position.
C11_Witness ==
    /\ lastOp = "findThrew"
    /\ uncaught = "none"
    /\ \A p \in ProcIds : procs[p].pc = "free"
    /\ \A t \in TradeIds :
          trades[t].tcState = "OPEN" /\ trades[t].filled > 0 /\ trades[t].closeOrderId = "null"

\* C12: a matched position whose owner is not found, whose owner has an empty
\* API key or secret, or whose filled quantity is not greater than 0 gets no
\* order and no closure update, its row is unchanged, and the loop goes to the
\* next matched position.
C12_SkippedPositionUntouched ==
    [][lastOp' \in {"userReturned", "userNull"} =>
         \A p \in ProcIds :
            (procs[p].pc = "user" /\ procs'[p] # procs[p]) =>
               LET row == trades[procs[p].open[procs[p].idx]]
               IN (\/ lastOp' = "userNull"
                   \/ Users[row.userId].apiKey = ""
                   \/ Users[row.userId].apiSecret = ""
                   \/ row.filled <= 0) =>
                     /\ trades' = trades
                     /\ procs'[p].pc \notin {"order", "update"}
                     /\ procs'[p] = IF procs[p].idx < Len(procs[p].open)
                                    THEN NextIteration(procs[p])
                                    ELSE FreeProc]_vars

\* C12 witness: the first matched position belongs to the owner without a
\* secret, it was skipped and is still OPEN, and the loop is at the second one.
C12_Witness ==
    /\ lastOp = "userReturned"
    /\ \E p \in ProcIds :
          /\ procs[p].pc = "user"
          /\ procs[p].idx = 2
          /\ trades[procs[p].open[1]].userId = "u2"
          /\ trades[procs[p].open[1]].tcState = "OPEN"
          /\ trades[procs[p].open[1]].closeOrderId = "null"
          /\ procs[p].open[1] \notin failed

\* C13: every closing order at the exchange for a futures position carries
\* reduceOnly, and every closing order for a spot position carries no
\* parameter.
C13_ReduceOnlyReachesExchange ==
    \A p \in ProcIds :
       procs[p].pc = "order" =>
          /\ procs[p].req.marketType = "futures" => "reduceOnly" \in procs[p].req.params
          /\ procs[p].req.marketType = "spot" => procs[p].req.params = {}

\* the profit the closure of `row` by an order of cost `closeCost` should
\* persist: a number when both costs are numbers, null otherwise
ExpectedProfit(row, closeCost) ==
    IF row.cost.tag = "num" /\ closeCost.tag = "num"
    THEN IF row.side = "buy" THEN Num(closeCost.v - row.cost.v)
                             ELSE Num(row.cost.v - closeCost.v)
    ELSE Null

\* C14: the profit handed to the closure update, and the profit of every
\* closed row, is closing cost minus original cost for a buy position,
\* original cost minus closing cost for a sell position, and null when either
\* cost is not a number; a closed row is COMPLETED.
C14_ProfitPersisted ==
    /\ \A p \in ProcIds :
          procs[p].pc = "update" =>
             procs[p].upd.profit =
                ExpectedProfit(trades[procs[p].open[procs[p].idx]], procs[p].upd.closeCost)
    /\ \A t \in TradeIds :
          trades[t].closeOrderId = "close" =>
             /\ trades[t].tcState = "COMPLETED"
             /\ trades[t].profit = ExpectedProfit(trades[t], trades[t].closeCost)

\* C15: the closing order at the exchange is on the position's symbol and
\* market type, on the inverse of its side, for its filled quantity counted in
\* base-asset units.
C15_ClosingOrderShape ==
    \A p \in ProcIds :
       procs[p].pc = "order" =>
          LET row == trades[procs[p].open[procs[p].idx]]
              req == procs[p].req
          IN /\ req.symbol = row.symbol
             /\ req.marketType = row.marketType
             /\ req.side = (IF row.side = "buy" THEN "sell" ELSE "buy")
             /\ req.amount = row.filled
             /\ req.unit = "base"

\* C16: a closing order that throws leaves every row as it was, and a later
\* query for the same symbol and side returns every position whose attempt
\* failed and that is still OPEN, so the loop runs for it again.
C16_FailedPositionRetried ==
    [][/\ lastOp' = "orderThrew" => trades' = trades
       /\ lastOp' = "findReturned" =>
            \A p \in ProcIds :
               (procs[p].pc = "find" /\ procs'[p] # procs[p]) =>
                  \A t \in failed :
                     (/\ trades[t].tcState = "OPEN"
                      /\ trades[t].symbol = procs[p].symbol
                      /\ trades[t].side = procs[p].oppositeSide) =>
                        /\ procs'[p].pc = "user"
                        /\ \E i \in 1..Len(procs'[p].open) : procs'[p].open[i] = t]_vars

\* C16 witness: a query just returned a position whose earlier closing order
\* threw; it is still OPEN and the loop is about to handle it again.
C16_Witness ==
    /\ lastOp = "findReturned"
    /\ \E p \in ProcIds :
          /\ procs[p].pc = "user"
          /\ procs[p].idx = 1
          /\ procs[p].open[1] \in failed
          /\ trades[procs[p].open[1]].tcState = "OPEN"
          /\ \A q \in ProcIds \ {p} : procs[q].pc = "free"

\* the catalog has a market of that kind for the asset of suggestion or grade g
SpotListed(g)    == SpotSymbolOf(ToUpperCase(g.symbol_id)) \in spotMarketInfoMap
FuturesListed(g) == FuturesSymbolOf(ToUpperCase(g.symbol_id)) \in futuresMarketInfoMap

\* C17: no returned suggestion has action SELL for an asset without a futures
\* market in the catalog.
C17_NoSellWithoutFutures ==
    \A i \in 1..Len(suggestions) :
       suggestions[i].action = "SELL" =>
          (FuturesListed(suggestions[i]) /\ suggestions[i].futuresMarket # "null")

\* C17 witness: a pass that got a SELL-graded asset listed on spot only, then
\* an asset that was emitted: only the second one is in the output.
C17_Witness ==
    /\ sgPc = "done"
    /\ Len(traderGrades) = 2
    /\ traderGrades[1].symbol = "Bitcoin"
    /\ traderGrades[1].ta_grade = 20 /\ traderGrades[1].quant_grade = 30
    /\ traderGrades[1].tm_grade = 10
    /\ SpotListed(traderGrades[1]) /\ ~FuturesListed(traderGrades[1])
    /\ Len(suggestions) = 1
    /\ suggestions[1].symbol_id = traderGrades[2].symbol_id
    /\ suggestions[1].symbol_id # traderGrades[1].symbol_id

\* C18: the confidence of every classified triple of grades lies in [0, 0.99]
\* and is a multiple of 0.01.
C18_ConfidenceRange ==
    \A i \in 1..Len(suggestions) :
       LET c == suggestions[i].confidence
       IN /\ c.den > 0
          /\ 0 <= c.num
          /\ c.num * 100 <= 99 * c.den
          /\ (c.num * 100) % c.den = 0

\* C18 witness: grades (100, 100, 100), whose confidence 1 is capped to 0.99.
C18_Witness ==
    /\ sgPc = "done"
    /\ Len(suggestions) = 1
    /\ suggestions[1].details = [ta_grade |-> 100, quant_grade |-> 100, tm_grade |-> 100]
    /\ suggestions[1].action = "BUY"
    /\ FracEq(suggestions[1].confidence, Frac(99, 100))

\* n/d (d > 0) capped to [0, 0.99] and rounded, in hundredths
Hundredths(n, d) ==
    IF n <= 0 THEN 0
    ELSE IF 100 * n >= 99 * d THEN 99
    ELSE (200 * n + d) \div (2 * d)

\* C19: with avg the mean of the three grades, the action is BUY iff
\* avg >= 59, SELL iff avg <= 41, HOLD otherwise; the confidence is the capped
\* and rounded value of (avg-59)/41 for BUY, (41-avg)/41 for SELL and
\* 1-|avg-50|/9 for HOLD; (80,70,90) is BUY 0.51, (20,30,10) is SELL 0.51 and
\* (50,50,50) is HOLD 0.99.
C19_ActionAndConfidence ==
    \A i \in 1..Len(suggestions) :
       LET d    == suggestions[i].details
           sum  == d.ta_grade + d.quant_grade + d.tm_grade     \* 3 * avg
           dist == IF sum >= 150 THEN sum - 150 ELSE 150 - sum \* 3 * |avg - 50|
           act  == suggestions[i].action
           c    == suggestions[i].confidence
       IN /\ (act = "BUY") <=> (sum >= 3 * 59)
          /\ (act = "SELL") <=> (sum <= 3 * 41)
          /\ (act = "HOLD") <=> (sum > 3 * 41 /\ sum < 3 * 59)
          /\ act = "BUY"  => FracEq(c, Frac(Hundredths(sum - 3 * 59, 3 * 41), 100))
          /\ act = "SELL" => FracEq(c, Frac(Hundredths(3 * 41 - sum, 3 * 41), 100))
          /\ act = "HOLD" => FracEq(c, Frac(Hundredths(3 * 9 - dist, 3 * 9), 100))
          /\ d = [ta_grade |-> 80, quant_grade |-> 70, tm_grade |-> 90] =>
                (act = "BUY" /\ FracEq(c, Frac(51, 100)))
          /\ d = [ta_grade |-> 20, quant_grade |-> 30, tm_grade |-> 10] =>
                (act = "SELL" /\ FracEq(c, Frac(51, 100)))
          /\ d = [ta_grade |-> 50, quant_grade |-> 50, tm_grade |-> 50] =>
                (act = "HOLD" /\ FracEq(c, Frac(99, 100)))

\* C19 witness: grades (20, 30, 10) classified as SELL with confidence 0.51.
C19_Witness ==
    /\ sgPc = "done"
    /\ Len(suggestions) = 1
    /\ suggestions[1].details = [ta_grade |-> 20, quant_grade |-> 30, tm_grade |-> 10]
    /\ suggestions[1].action = "SELL"
    /\ FracEq(suggestions[1].confidence, Frac(51, 100))

\* C20: every returned suggestion names at least one market, each market it
\* names is a key of the corresponding catalog map, and no asset without any
\* market is in the output.
C20_EverySuggestionHasMarket ==
    \A i \in 1..Len(suggestions) :
       LET g == suggestions[i]
       IN /\ g.spotMarket # "null" \/ g.futuresMarket # "null"
          /\ g.spotMarket # "null" => g.spotMarket \in spotMarketInfoMap
          /\ g.futuresMarket # "null" => g.futuresMarket \in futuresMarketInfoMap
          /\ SpotListed(g) \/ FuturesListed(g)

\* C20 witness: a pass that got a BUY-graded asset with no market at all, then
\* an asset listed on futures only: the output is the second one alone.
C20_Witness ==
    /\ sgPc = "done"
    /\ Len(traderGrades) = 2
    /\ traderGrades[1].symbol = "Bitcoin"
    /\ traderGrades[1].ta_grade = 80 /\ traderGrades[1].quant_grade = 70
    /\ traderGrades[1].tm_grade = 90
    /\ ~SpotListed(traderGrades[1]) /\ ~FuturesListed(traderGrades[1])
    /\ Len(suggestions) = 1
    /\ suggestions[1].symbol_id = traderGrades[2].symbol_id
    /\ suggestions[1].spotMarket = "null"
    /\ suggestions[1].futuresMarket # "null"

\* the grades of the last pass that pass the name filter and are listed on
\* futures only
FuturesOnlyGrades ==
    SelectSeq(traderGrades,
              LAMBDA g : ~IsBinancePeg(g.symbol) /\ ~SpotListed(g) /\ FuturesListed(g))

\* the suggestions of the last pass that name no spot market
NoSpotSuggestions == SelectSeq(suggestions, LAMBDA g : g.spotMarket = "null")

\* C21: no two suggestions of one pass name the same spot market; the guard
\* looks at the spot symbol only, so every asset listed on futures only is
\* emitted, also when it shares its futures symbol with an earlier one.
C21_SpotSymbolEmittedOnce ==
    /\ \A i, j \in 1..Len(suggestions) :
          (i < j /\ suggestions[i].spotMarket # "null") =>
             suggestions[i].spotMarket # suggestions[j].spotMarket
    /\ sgPc = "done" =>
          /\ Len(NoSpotSuggestions) = Len(FuturesOnlyGrades)
          /\ \A i \in 1..Len(NoSpotSuggestions) :
                /\ NoSpotSuggestions[i].symbol_id = FuturesOnlyGrades[i].symbol_id
                /\ NoSpotSuggestions[i].futuresMarket =
                      FuturesSymbolOf(ToUpperCase(FuturesOnlyGrades[i].symbol_id))

\* C21 witness: two assets with the same spot symbol, both eligible: the
\* first is emitted and the second is skipped.
C21_Witness ==
    /\ sgPc = "done"
    /\ Len(traderGrades) = 2
    /\ traderGrades[1].symbol_id = "BTC" /\ traderGrades[2].symbol_id = "btc"
    /\ traderGrades[1].symbol = "Bitcoin" /\ traderGrades[2].symbol = "Bitcoin"
    /\ traderGrades[1].ta_grade = 80 /\ traderGrades[2].ta_grade = 80
    /\ SpotListed(traderGrades[1])
    /\ Len(suggestions) = 1
    /\ suggestions[1].symbol_id = "BTC"
    /\ suggestions[1].spotMarket = "BTC/USDC"

\* C21 second case: two assets listed on futures only that share the futures
\* symbol are both in the output.
C21_SharedFuturesBothEmitted ==
    /\ sgPc = "done"
    /\ Len(suggestions) = 2
    /\ suggestions[1].spotMarket = "null" /\ suggestions[2].spotMarket = "null"
    /\ suggestions[1].futuresMarket = suggestions[2].futuresMarket
    /\ suggestions[1].symbol_id # suggestions[2].symbol_id

\* the entries of a tick's list for one asset
EntriesOf(log, symbol) == {i \in 1..Len(log) : log[i].symbol = symbol}

\* C22: after a tick that evaluated a non-empty list, the map holds for every
\* asset of the list the value fetched for it (the last one when the asset
\* is listed more than once), event or not; every other asset keeps its entry.
C22_MapHoldsFetchedValues ==
    [][(TickEnds /\ tickOutcome' = "complete") =>
         /\ Len(events') > 0
         /\ \A symbol \in FeedSymbols :
               IF EntriesOf(events', symbol) # {}
               THEN /\ symbol \in DOMAIN lastSignals'
                    /\ \E i \in EntriesOf(events', symbol) :
                          /\ \A j \in EntriesOf(events', symbol) : j <= i
                          /\ lastSignals'[symbol] = events'[i].cur
               ELSE /\ (symbol \in DOMAIN lastSignals') = (symbol \in DOMAIN lastSignals)
                    /\ symbol \in DOMAIN lastSignals =>
                          lastSignals'[symbol] = lastSignals[symbol]]_vars

\* C22 witness: a tick whose only entry fired no event (1 -> 0) recorded the 0,
\* and the other asset still has its entry.
C22_Witness ==
    /\ tickOutcome = "complete"
    /\ Len(events) = 1
    /\ events[1].ev = "none"
    /\ events[1].cur = 0
    /\ DOMAIN lastSignals = FeedSymbols
    /\ lastSignals[events[1].symbol] = 0
    /\ \E other \in FeedSymbols \ {events[1].symbol} : lastSignals[other] = 1

C24_UpdateNeverOverlaps ==
    [][/\ \A u \in UpdateIds :
             (isUpdating /\ updates[u].pc = "idle" /\ updates'[u] # updates[u]) =>
                 /\ updates'[u].pc = "idle"
                 /\ updates'[u].result = "skipped"
                 /\ generatorCalls' = generatorCalls
                 /\ saveCalls' = saveCalls
                 /\ storedSuggestions' = storedSuggestions
                 /\ isUpdating'
       /\ \A u \in UpdateIds :
             (updates[u].pc # "idle" /\ updates'[u].pc = "idle") => ~isUpdating'
       /\ Cardinality({u \in UpdateIds : updates'[u].pc # "idle"}) <= 1
       /\ isUpdating' <=> (\E u \in UpdateIds : updates'[u].pc # "idle")]_vars

\* a second call was skipped while the first one still awaits the generator
C24_Witness ==
    /\ isUpdating
    /\ generatorCalls = 1
    /\ \E u, v \in UpdateIds :
          /\ updates[u].pc = "awaitGenerate"
          /\ updates[v].pc = "idle" /\ updates[v].result = "skipped"

\* C25: when the generator rejects, saveSuggestions is not called, the stored
\* list stays as it was, one error is logged and the call resolves; when
\* saveSuggestions rejects, one error is logged and the call resolves.
C25_UpdateFailureContained ==
    [][\A u \in UpdateIds :
          /\ (updates[u].pc = "awaitGenerate" /\ updates'[u].pc = "idle") =>
                /\ saveCalls' = saveCalls
                /\ storedSuggestions' = storedSuggestions
                /\ errorLogs' = errorLogs + 1
                /\ updates'[u].result = "resolved"
          /\ (updates[u].pc = "awaitSave" /\ updates'[u].pc = "idle") =>
                /\ \/ errorLogs' = errorLogs + 1 /\ storedSuggestions' = storedSuggestions
                   \/ /\ errorLogs' = errorLogs
                      /\ storedSuggestions' = updates[u].newSuggestions
                /\ updates'[u].result = "resolved"]_vars

\* after a stored list: one run whose generation failed and one whose save
\* failed, both ended
C25_Witness ==
    /\ generatorCalls = 3 /\ saveCalls = 2 /\ errorLogs = 2
    /\ storedSuggestions # <<>>
    /\ ~isUpdating
    /\ \E u \in UpdateIds : updates[u].result = "resolved"

\* C26: a step of one processSignal invocation touches no row other than the
\* position the loop is at, the loop keeps its list and moves by one position
\* at a time, and a failed owner lookup, a missing owner, a failed order or a
\* failed closure update on one position is followed by the attempt on the
\* next matched position, without a rejection.
C26_PositionsIndependent ==
    [][\A p \in ProcIds :
          (procs[p].pc \in {"user", "order", "update"} /\ procs'[p] # procs[p]) =>
             LET f == procs[p]
             IN /\ \A t \in TradeIds : t # f.open[f.idx] => trades'[t] = trades[t]
                /\ procs'[p].pc # "free" =>
                      /\ procs'[p].open = f.open
                      /\ procs'[p].idx \in {f.idx, f.idx + 1}
                /\ (/\ lastOp' \in {"userNull", "userThrew", "orderThrew", "updateThrew"}
                    /\ f.idx < Len(f.open)) => procs'[p] = NextIteration(f)
                /\ uncaught' = uncaught]_vars

\* the owner lookup for the first matched position failed; the loop is at the
\* second position
C26_Witness ==
    /\ lastOp = "userThrew"
    /\ uncaught = "none"
    /\ \E p \in ProcIds :
          /\ procs[p].pc = "user"
          /\ procs[p].idx = 2
          /\ trades[procs[p].open[1]].tcState = "OPEN"
          /\ \A q \in ProcIds \ {p} : procs[q].pc = "free"

\* a later position's closure update failed after the first position of the
\* same pass was closed: the first closure stands
C26_EarlierClosureStands ==
    /\ lastOp = "updateThrew"
    /\ \E t1, t2 \in TradeIds :
          /\ t1 # t2
          /\ trades[t1].symbol = trades[t2].symbol /\ trades[t1].side = trades[t2].side
          /\ trades[t1].tcState = "COMPLETED" /\ trades[t2].tcState = "OPEN"
    /\ \A p \in ProcIds : procs[p].pc = "free"

\* C27: within one processSignal invocation an order is submitted only from
\* the owner lookup of the position the loop is at, that position is an
\* element of the list the query returned, the list holds no position twice,
\* and once the order of a position is submitted the loop goes to its closure
\* update, to the next position or to the end, never back to the same one.
C27_OneOrderPerMatch ==
    [][\A p \in ProcIds :
          LET f == procs[p]
              g == procs'[p]
          IN /\ (f.pc = "find" /\ g.pc = "user") =>
                   /\ g.open = FindOpenTrades(f.symbol, f.oppositeSide)
                   /\ g.idx = 1
             /\ g.pc \in {"user", "order", "update"} =>
                   \A i, j \in 1..Len(g.open) : i # j => g.open[i] # g.open[j]
             /\ (g.pc = "order" /\ g # f) =>
                   /\ f.pc = "user"
                   /\ g.open = f.open /\ g.idx = f.idx
                   /\ f.idx \in 1..Len(f.open)
                   /\ g.req = ClosingRequest(trades[f.open[f.idx]])
             /\ (f.pc \in {"user", "order", "update"} /\ g # f) =>
                   \/ g.pc = "free"
                   \/ g.pc = "order" /\ f.pc = "user"
                   \/ g.pc = "update" /\ f.pc = "order" /\ g.idx = f.idx /\ g.open = f.open
                   \/ g.pc = "user" /\ g.idx = f.idx + 1 /\ g.open = f.open]_vars

\* the order for the second matched position is at the exchange after the
\* first position of the same pass was closed
C27_Witness ==
    \E p \in ProcIds :
       /\ procs[p].pc = "order"
       /\ procs[p].idx = 2
       /\ Len(procs[p].open) = 2
       /\ trades[procs[p].open[1]].tcState = "COMPLETED"
       /\ trades[procs[p].open[2]].tcState = "OPEN"
       /\ \A q \in ProcIds \ {p} : procs[q].pc = "free"

\* the symbol is a key of the catalog mapping for the market type
Listed(marketSymbol, marketType) ==
    IF marketType = "spot" THEN marketSymbol \in usdcSpotMarketInfo
                           ELSE marketSymbol \in usdcFuturesMarketInfo

\* C28: a placeMarketOrder call for a symbol that is not a key of the mapping
\* of its market type ends with BadSymbol and sends no request to the
\* exchange, and each of the two validity checks is true exactly for the keys
\* of its mapping.
C28_UnlistedSymbolRejected ==
    [][/\ (placeCall.pc # "awaitExchange" /\ placeCall' # placeCall) =>
             (~Listed(placeCall'.marketSymbol, placeCall'.marketType) =>
                 /\ placeCall'.pc = "done"
                 /\ placeCall'.result = "BadSymbol"
                 /\ placeCall'.req = NoRequest)
       /\ \A symbol \in OrderSymbols :
             /\ IsValidUsdcSpotPair(symbol) <=> symbol \in usdcSpotMarketInfo
             /\ IsValidUsdcFuturesPair(symbol) <=> symbol \in usdcFuturesMarketInfo]_vars

\* an unlisted symbol was rejected with BadSymbol while the catalog is loaded
C28_RejectionHappens ==
    /\ placeCall.pc = "done" /\ placeCall.result = "BadSymbol"
    /\ placeCall.marketSymbol = "DOGE/USDC"
    /\ usdcSpotMarketInfo # {}

\* C29: a refresh that succeeds leaves in the spot mapping exactly the active
\* spot markets quoted in USDC of the returned markets and in the derivatives
\* mapping exactly the active linear perpetual markets quoted in USDC, whatever
\* the mappings held before; a refresh that fails leaves both mappings as they
\* were.
C29_CatalogMatchesExchange ==
    [][/\ (loadPc = "awaitLoad" /\ loadPc' = "done") =>
             /\ usdcSpotMarketInfo' =
                   {m.symbol : m \in {x \in markets' :
                       x.active /\ x.spot /\ x.quote = "USDC"}}
             /\ usdcFuturesMarketInfo' =
                   {m.symbol : m \in {x \in markets' :
                       x.active /\ x.type = "swap" /\ x.linear /\ x.quote = "USDC"}}
       /\ (loadPc = "awaitLoad" /\ loadPc' = "rejected") =>
             UNCHANGED <<usdcSpotMarketInfo, usdcFuturesMarketInfo>>]_vars

\* a refresh returned an inactive spot market next to an active spot market
\* and an active perpetual: only the active ones are in the mappings
C29_Witness ==
    /\ loadPc = "done"
    /\ \E m \in markets : m.symbol = "BTC/USDC" /\ ~m.active
    /\ usdcSpotMarketInfo = {"ETH/USDC"}
    /\ usdcFuturesMarketInfo = {"BTC/USDC:USDC"}

\* the positions in the list of a processSignal frame
PositionsOf(f) == {f.open[i] : i \in 1..Len(f.open)}

\* C30: two processSignal invocations in flight for different symbols hold
\* lists with no position in common, every position in a list has the symbol
\* of its invocation, a row changes only by the closure update of an
\* invocation for that row's symbol, at the position its loop is at, and no
\* step of a reconciliation writes the last-signal map.
C30_DifferentSymbolsDisjoint ==
    [][/\ \A p, q \in ProcIds :
             (/\ procs'[p].pc # "free" /\ procs'[q].pc # "free"
              /\ procs'[p].symbol # procs'[q].symbol) =>
                 PositionsOf(procs'[p]) \cap PositionsOf(procs'[q]) = {}
       /\ \A p \in ProcIds :
             \A t \in PositionsOf(procs'[p]) : trades'[t].symbol = procs'[p].symbol
       /\ \A t \in TradeIds :
             trades'[t] # trades[t] =>
                \E p \in ProcIds :
                   /\ procs[p].pc = "update"
                   /\ procs'[p] # procs[p]
                   /\ procs[p].symbol = trades[t].symbol
                   /\ procs[p].open[procs[p].idx] = t
       /\ lastSignals' = lastSignals]_vars

\* two invocations for different symbols are past their queries at once, each
\* with a position to close
C30_Witness ==
    \E p, q \in ProcIds :
       /\ procs[p].symbol = "BTC/USDC" /\ procs[q].symbol = "ETH/USDC"
       /\ procs[p].pc = "update" /\ procs[q].pc = "order"
       /\ PositionsOf(procs[p]) # {} /\ PositionsOf(procs[q]) # {}

\* the last-signal map changes only in the step that ends a tick body, and
\* then as one evaluation of the fetched list over the map the tick found
C30_MapWrittenOnlyInTick ==
    [][lastSignals' # lastSignals =>
          /\ TickEnds
          /\ tickOutcome' = "complete"
          /\ \E list \in SignalLists :
                lastSignals' = EvalSignals(list, lastSignals, <<>>).map]_vars

\* C31: when a tick body completes, every buy or sell event of its evaluation
\* has a listener, and the step makes one processSignal call per event, in
\* order, with the side and the symbol of the event.
C31_EveryEventReconciled ==
    [][(TickEnds /\ tickOutcome' = "complete") =>
          /\ \A i \in 1..Len(events') :
                events'[i].ev \in Sides => events'[i].ev \in listeners
          /\ procs' = Spawn(procs, ListenerCalls(events', Sides))]_vars

\* a later tick, with the listeners registered, emitted an edge event and the
\* processSignal call for it is in flight
C31_LaterEventsReconciled ==
    /\ Sides \subseteq listeners
    /\ tickOutcome = "complete"
    /\ \E i \in 1..Len(events) : events[i].ev = "sell"
    /\ \E p \in ProcIds : procs[p].pc = "find" /\ procs[p].signalSide = "sell"

\* C32: the exchange accepts at most one closing order for a position.
C32_OneAcceptedOrderPerPosition ==
    \A t \in TradeIds : accepted[t] <= 1

\* C33: a row that is COMPLETED keeps its closure fields in every step.
C33_CompletedRowFrozen ==
    [][\A t \in TradeIds :
          trades[t].tcState = "COMPLETED" =>
             /\ trades'[t].tcState = "COMPLETED"
             /\ trades'[t].closeOrderId = trades[t].closeOrderId
             /\ trades'[t].closeCost = trades[t].closeCost
             /\ trades'[t].profit = trades[t].profit]_vars

\* C34: while stop() has returned and start() has not been called since, no
\* checkSignals body starts.
C34_NoTickAfterStop ==
    [][(stopped /\ stopped') => Len(inFlight') <= Len(inFlight)]_vars

\* stop() returned with a schedule to cancel and no tick in flight: the timer
\* is gone and nothing is pending
C34_StoppedQuiet ==
    /\ stopped
    /\ intervalId = 0 /\ activeTimers = {} /\ inFlight = <<>>
    /\ startPc[1] = "done"

\* the asset a market symbol is a market of
AssetOf(marketSymbol) ==
    IF marketSymbol \in {"BTC/USDC", "BTC/USDC:USDC"} THEN "BTC" ELSE "ETH"

\* a listener's processSignal call is in flight for an event on the asset of
\* position t that opposes its side, and t is a position the reconciler
\* closes: OPEN, filled, owner with credentials
OpposingEventFor(t) ==
    /\ trades[t].tcState = "OPEN" /\ trades[t].filled > 0
    /\ Users[trades[t].userId].apiKey # "" /\ Users[trades[t].userId].apiSecret # ""
    /\ \E p \in ProcIds :
          /\ procs[p].pc = "find"
          /\ procs[p].symbol = AssetOf(trades[t].symbol)
          /\ procs[p].oppositeSide = trades[t].side

\* C35: an opposing edge event for the asset of a closable OPEN position leads
\* to that position being COMPLETED, when the store and the exchange answer
\* every request.
C35_OpposingEventCloses ==
    \A t \in TradeIds : OpposingEventFor(t) ~> (trades[t].tcState = "COMPLETED")

\* a call made with the market symbol of the position does close it
C35_MarketSymbolCloses ==
    /\ lastOp = "updateReturned"
    /\ \E t \in TradeIds : trades[t].tcState = "COMPLETED"

\* what the record holds for a value of the order: a value the order leaves
\* out is not written, and the column of an OPEN row holds null
Reported(v) == IF v = Undefined THEN Null ELSE v

\* C36: the update of a successful closure leaves the row COMPLETED with the
\* closing order's id, average price and cost, a closing timestamp equal to
\* the order's timestamp (a wall-clock reading when the order has none), and
\* a duration equal to the closing timestamp minus the opening timestamp.
C36_ClosureRecord ==
    [][\A p \in ProcIds :
          (procs[p].pc = "update" /\ lastOp' = "updateReturned" /\ procs'[p] # procs[p]) =>
             LET order == procs[p].order
                 t     == procs[p].open[procs[p].idx]
                 row   == trades'[t]
             IN /\ row.tcState = "COMPLETED"
                /\ row.closeOrderId = order.id
                /\ row.closePrice = Reported(order.average)
                /\ row.closeCost = Reported(order.cost)
                /\ IF order.timestamp = Undefined
                   THEN row.closeTimestamp \in {Num(now) : now \in WallClock}
                   ELSE row.closeTimestamp = order.timestamp
                /\ row.durationMs = Num(row.closeTimestamp.v - trades[t].timestamp.v)]_vars

\* a closure was persisted for an order that reports its timestamp and average
C36_ReportedTimestampPersisted ==
    /\ lastOp = "updateReturned"
    /\ \E t \in TradeIds :
          /\ trades[t].tcState = "COMPLETED"
          /\ trades[t].closeTimestamp = Num(500)
          /\ trades[t].closePrice = Num(202)
          /\ trades[t].durationMs = Num(400)

\* a closure was persisted for an order without a timestamp
C36_WallClockPersisted ==
    /\ lastOp = "updateReturned"
    /\ \E t \in TradeIds :
          /\ trades[t].tcState = "COMPLETED"
          /\ trades[t].closeTimestamp = Num(900)
          /\ trades[t].durationMs = Num(800)

\* C37: a classification pass that completes emits what the classification of
\* its grades over the catalog's current mappings gives.
C37_PassReadsCatalog ==
    [][(sgPc = "awaitGrades" /\ sgPc' = "done") =>
          suggestions' = SuggestionLoop(traderGrades', usdcSpotMarketInfo,
                                        usdcFuturesMarketInfo, <<>>, {})]_vars

\* a pass completed with the catalog as it was when the generator was built
C37_PassBeforeRefresh ==
    /\ sgPc = "done" /\ suggestions # <<>>
    /\ spotMarketInfoMap = usdcSpotMarketInfo
    /\ futuresMarketInfoMap = usdcFuturesMarketInfo

\* C38: a startPeriodicUpdates call that finds a schedule creates none and runs
\* no update; a schedule is created after exactly one update call of its
\* startPeriodicUpdates call has settled when runImmediately is true, and after
\* none when it is false; stopPeriodicUpdates without a schedule changes
\* nothing but the log.
C38_PeriodicSchedule ==
    [][/\ \A s \in PeriodicIds :
            (periodicPc[s].pc = "unused" /\ periodicPc'[s].pc # "unused"
                /\ updateIntervalId # 0) =>
               /\ updateTimers' = updateTimers
               /\ updateIntervalId' = updateIntervalId
               /\ generatorCalls' = generatorCalls
               /\ updates' = updates
       /\ \A s \in PeriodicIds :
            (s \notin updateTimers /\ s \in updateTimers') =>
               /\ periodicPc'[s].ran = IF periodicPc'[s].runImmediately THEN 1 ELSE 0
               /\ periodicPc'[s].u # 0 => updates'[periodicPc'[s].u].pc = "idle"
       /\ \A s \in PeriodicIds :
            (periodicPc[s].pc = "unused" /\ periodicPc'[s].pc = "awaitUpdate") =>
               /\ periodicPc'[s].runImmediately
               /\ updateTimers' = updateTimers
               /\ generatorCalls' = generatorCalls + 1
       /\ (lastLog # "notRunning" /\ lastLog' = "notRunning") =>
               /\ updateIntervalId = 0
               /\ UNCHANGED <<updateIntervalId, updateTimers, periodicPc, isUpdating,
                              updates, storedSuggestions, generatorCalls, saveCalls,
                              errorLogs>>]_vars

\* the first call ran its immediate update and then created the schedule, and
\* the second call, made while that schedule exists, created none
C38_SecondStartIgnored ==
    /\ periodicPc[1].pc = "done" /\ periodicPc[1].runImmediately
    /\ periodicPc[1].ran = 1
    /\ periodicPc[2].pc = "ignored"
    /\ updateTimers = {1} /\ updateIntervalId = 1
    /\ generatorCalls = 1

\* stopPeriodicUpdates was called with no schedule
C38_StopWithoutSchedule ==
    /\ lastLog = "notRunning"
    /\ updateIntervalId = 0 /\ updateTimers = {}

====
